---- MODULE Spec2Model ----
(***************************************************************************)
(* A model of the mini-rag backend (server.js): the text chunker, the      *)
(* metadata sanitizer and the rerank client.  Strings are sequences of     *)
(* character codes; JavaScript objects are records.                        *)
(***************************************************************************)
EXTENDS Integers, Sequences, FiniteSets, TLC

VARIABLES
    \* chunkText(text, chunkSize, overlap): arguments, locals, position
    text, chunkSize, overlap, start, chunks, cpc,
    \* cleanMeta(meta): argument, local `out`, position
    meta, out, mpc,
    \* rerank(query, documents): argument, environment, provider response,
    \* returned list, position
    documents, hasKey, response, reranked, rpc,
    \* the vector store (the one resource the requests share)
    store,
    \* POST /query: request body, position, sources, provider calls made,
    \* the calls that failed, the generation provider's raw text, the
    \* response sent
    qbody, qpc, qsources, qcalls, qfailed, qraw, qresp,
    \* POST /upsert: the state of every request, and the store calls and
    \* embedding calls that completed, in the order they completed
    ureq, ulog,
    \* POST /reset: the state of the request, the clock (ms), and the
    \* namespaces whose deleteAll was accepted and is not yet applied
    reset, now, pendingDeletes,
    \* the rate limiter's counters; one embedText call; one cost estimate
    limiter, emb, est

chunkVars == <<text, chunkSize, overlap, start, chunks, cpc>>
metaVars == <<meta, out, mpc>>
rerankVars == <<documents, hasKey, response, reranked, rpc>>
queryVars == <<qbody, qpc, qsources, qcalls, qfailed, qraw, qresp>>
upsertVars == <<ureq, ulog>>
resetVars == <<reset, now, pendingDeletes>>
utilVars == <<limiter, emb, est>>
serverVars == <<store, queryVars, upsertVars, resetVars, utilVars>>
vars == <<chunkVars, metaVars, rerankVars, serverVars>>

Min(a, b) == IF a < b THEN a ELSE b
Max(a, b) == IF a > b THEN a ELSE b

(***************************************************************************)
(* Bounds of the model.                                                    *)
(***************************************************************************)
MaxTextLen == 4
MaxParam == 4
MaxArrLen == 2
MaxDocs == 2

\* Default arguments of chunkText.
DefaultChunkSize == 1000
DefaultOverlap == 150

(***************************************************************************)
(* Chunker                                                                 *)
(***************************************************************************)
Alphabet == 0..1
Texts == UNION {[1..n -> Alphabet] : n \in 0..MaxTextLen}
Params == (0 - 1)..MaxParam

\* A text of 2,300 characters, every character different from the others, so
\* that a substring determines the offset it was taken from.
ScenarioText == [i \in 1..2300 |-> i]

\* String.prototype.slice(b, e): a negative index counts from the end, both
\* indices are clamped to the string, an empty range gives "".
SliceIndex(len, i) == IF i < 0 THEN Max(len + i, 0) ELSE Min(i, len)
Slice(s, b, e) ==
    LET from == SliceIndex(Len(s), b)
        to == SliceIndex(Len(s), e)
    IN  IF from < to THEN SubSeq(s, from + 1, to) ELSE <<>>

\* while (start < text.length)
LoopCondLe(st, t) == st <= Len(t)
LoopCond(st, t) == st < Len(t)

\* const end = Math.min(start + chunkSize, text.length)
ChunkEndShort(st, cs, t) == Min(st + cs - 1, Len(t))
ChunkEnd(st, cs, t) == Min(st + cs, Len(t))

\* start += Math.max(1, chunkSize - overlap)
AdvanceNoOverlap(cs, ov) == Max(1, cs)
AdvanceNoFloor(cs, ov) == cs - ov
AdvanceOverlapTwice(cs, ov) == Max(1, cs - 2 * ov)
ChunkAdvance(cs, ov) == Max(1, cs - ov)

\* The whole function, as the loop computes it.
RECURSIVE ChunkLoop(_, _, _, _, _)
ChunkLoop(t, cs, ov, st, acc) ==
    IF LoopCond(st, t)
    THEN ChunkLoop(t, cs, ov, st + ChunkAdvance(cs, ov),
                   Append(acc, Slice(t, st, ChunkEnd(st, cs, t))))
    ELSE acc
chunkText(t, cs, ov) == ChunkLoop(t, cs, ov, 0, <<>>)

\* No response sent yet.
NoHttp ==
    [status |-> 0, answer |-> "", citations |-> <<>>, sources |-> <<>>,
     error |-> ""]
QueryIdle ==
    /\ qbody = <<>>
    /\ qpc = "idle"
    /\ qsources = <<>>
    /\ qcalls = <<>>
    /\ qfailed = {}
    /\ qraw = <<>>
    /\ qresp = NoHttp
Reqs == {"A", "B"}
UpsertAbsent == [pc |-> "absent"]
UpsertIdle == ureq = [r \in Reqs |-> UpsertAbsent] /\ ulog = <<>>
ResetAbsent == [pc |-> "absent"]
ResetIdle == reset = ResetAbsent /\ now = 0 /\ pendingDeletes = {}
NotInUse == [pc |-> "idle"]
UtilIdle == limiter = NotInUse /\ emb = NotInUse /\ est = NotInUse
ServerIdle == store = {} /\ QueryIdle /\ UpsertIdle /\ ResetIdle /\ UtilIdle
MetaIdle == meta = <<>> /\ out = <<>> /\ mpc = "idle"
NoResponse == [status |-> "none", results |-> <<>>]
RerankIdle ==
    /\ documents = <<>>
    /\ hasKey = FALSE
    /\ response = NoResponse
    /\ reranked = <<>>
    /\ rpc = "idle"
ChunkIdle ==
    /\ text = <<>>
    /\ chunkSize = 0
    /\ overlap = 0
    /\ start = 0
    /\ chunks = <<>>
    /\ cpc = "idle"

\* Entry of chunkText: const chunks = []; let start = 0.
InitChunk ==
    /\ \/ text \in Texts /\ chunkSize \in Params /\ overlap \in Params
       \/ /\ text = ScenarioText
          /\ chunkSize = DefaultChunkSize
          /\ overlap = DefaultOverlap
    /\ start = 0
    /\ chunks = <<>>
    /\ cpc = "loop"
    /\ MetaIdle
    /\ RerankIdle
    /\ ServerIdle

\* One iteration of the while loop.
ChunkStep ==
    /\ cpc = "loop"
    /\ LoopCond(start, text)
    /\ chunks' = Append(chunks, Slice(text, start, ChunkEnd(start, chunkSize, text)))
    /\ start' = start + ChunkAdvance(chunkSize, overlap)
    /\ UNCHANGED <<text, chunkSize, overlap, cpc, metaVars, rerankVars>>
    /\ UNCHANGED serverVars

\* The loop condition fails: return chunks.
ChunkReturn ==
    /\ cpc = "loop"
    /\ ~LoopCond(start, text)
    /\ cpc' = "done"
    /\ UNCHANGED <<text, chunkSize, overlap, start, chunks, metaVars, rerankVars>>
    /\ UNCHANGED serverVars

NextChunk == ChunkStep \/ ChunkReturn

SpecChunk == InitChunk /\ [][NextChunk]_vars
\* The loop is synchronous code: once entered it runs until its condition fails.
SpecChunkFair == SpecChunk /\ WF_vars(NextChunk)

(***************************************************************************)
(* Chunker: properties                                                     *)
(***************************************************************************)
ChunkDone == cpc = "done"
\* chunkSize > overlap >= 0
ProperParams == chunkSize > overlap /\ overlap >= 0

\* The characters of c after its first n characters (nothing if c is shorter).
DropFirst(c, n) == IF Len(c) <= n THEN <<>> ELSE SubSeq(c, n + 1, Len(c))
\* The first chunk in full, then every later chunk without its first ov characters.
RECURSIVE JoinFrom(_, _, _)
JoinFrom(chs, ov, k) ==
    IF k > Len(chs) THEN <<>>
    ELSE (IF k = 1 THEN chs[1] ELSE DropFirst(chs[k], ov)) \o JoinFrom(chs, ov, k + 1)

\* C1: for chunkSize > overlap >= 0, the first chunk followed by every later
\* chunk stripped of its first `overlap` characters is exactly the text.
C1_Reconstructs ==
    (ChunkDone /\ ProperParams) => JoinFrom(chunks, overlap, 1) = text
\* A run with several chunks whose last chunk is shorter than the overlap.
C1_Witness ==
    /\ ChunkDone /\ ProperParams /\ overlap > 0
    /\ Len(chunks) >= 3
    /\ Len(chunks[Len(chunks)]) < overlap

CeilDiv(a, b) == (a + b - 1) \div b
\* C2: for chunkSize > overlap >= 0, the number of chunks is
\* ceil(len(text) / (chunkSize - overlap)).
C2_ChunkCount ==
    (ChunkDone /\ ProperParams) =>
        Len(chunks) = CeilDiv(Len(text), chunkSize - overlap)
\* A text whose length is no multiple of the step, cut into several chunks.
C2_Witness ==
    /\ ChunkDone /\ ProperParams /\ overlap > 0
    /\ Len(text) % (chunkSize - overlap) # 0
    /\ Len(chunks) >= 2

Scenario ==
    /\ ChunkDone
    /\ text = ScenarioText
    /\ chunkSize = DefaultChunkSize
    /\ overlap = DefaultOverlap
\* In the scenario text the character at offset i is i + 1.
ChunkOffsets == [k \in 1..Len(chunks) |-> chunks[k][1] - 1]
ChunkLengths == [k \in 1..Len(chunks) |-> Len(chunks[k])]
\* C3 as stated: 2,300 characters with chunkSize 1000 and overlap 150 give
\* 3 chunks at offsets 0, 850, 1700 of lengths 1000, 1000 and 300.
C3_AsStated ==
    Scenario =>
        /\ Len(chunks) = 3
        /\ ChunkOffsets = <<0, 850, 1700>>
        /\ ChunkLengths = <<1000, 1000, 300>>
\* C3, amended: 3 chunks at offsets 0, 850, 1700 of lengths 1000, 1000 and 600
\* (the last chunk runs from offset 1700 to the end of the text).
C3_Scenario ==
    Scenario =>
        /\ Len(chunks) = 3
        /\ ChunkOffsets = <<0, 850, 1700>>
        /\ ChunkLengths = <<1000, 1000, 600>>
        /\ \A k \in 1..3 :
              chunks[k] = SubSeq(text, ChunkOffsets[k] + 1,
                                 ChunkOffsets[k] + ChunkLengths[k])
C3_Witness == Scenario /\ Len(chunks) = 3

\* C4: chunkText terminates for every text, chunkSize and overlap, also when
\* overlap >= chunkSize: every iteration adds max(1, chunkSize - overlap) to
\* start, which strictly increases it.
C4_Terminates ==
    /\ <>(cpc = "done")
    /\ [][chunks' # chunks =>
            /\ start' = start + Max(1, chunkSize - overlap)
            /\ start' > start]_vars
\* A finished run with overlap >= chunkSize that went through the loop twice.
C4_Witness == ChunkDone /\ overlap >= chunkSize /\ Len(chunks) >= 2

\* The last n characters of a are the first n characters of b.
SharesOverlap(a, b, n) ==
    /\ Len(a) >= n
    /\ Len(b) >= n
    /\ SubSeq(a, Len(a) - n + 1, Len(a)) = SubSeq(b, 1, n)
IsSuffix(c, t) == Len(c) <= Len(t) /\ c = SubSeq(t, Len(t) - Len(c) + 1, Len(t))

\* C5 as stated: consecutive chunks other than the final one share exactly
\* `overlap` characters, and only the final chunk is shorter than chunkSize.
C5_AsStated ==
    (ChunkDone /\ ProperParams) =>
        /\ \A k \in 1..(Len(chunks) - 2) :
              SharesOverlap(chunks[k], chunks[k + 1], overlap)
        /\ \A k \in 1..(Len(chunks) - 1) : Len(chunks[k]) = chunkSize
\* C5, amended: a chunk of full length chunkSize shares exactly `overlap`
\* characters with the chunk after it; no chunk is longer than chunkSize, and a
\* chunk is shorter only if it runs to the end of the text (which several
\* trailing chunks can do, not only the final one).
C5_Overlap ==
    (ChunkDone /\ ProperParams) =>
        /\ \A k \in 1..(Len(chunks) - 1) :
              Len(chunks[k]) = chunkSize =>
                  SharesOverlap(chunks[k], chunks[k + 1], overlap)
        /\ \A k \in 1..Len(chunks) :
              /\ Len(chunks[k]) <= chunkSize
              /\ Len(chunks[k]) < chunkSize => IsSuffix(chunks[k], text)
\* A run with a full chunk followed by two shorter ones.
C5_Witness ==
    /\ ChunkDone /\ ProperParams /\ overlap > 0
    /\ Len(chunks) >= 3
    /\ Len(chunks[Len(chunks) - 2]) = chunkSize
    /\ Len(chunks[Len(chunks) - 1]) < chunkSize

(***************************************************************************)
(* Metadata sanitizer                                                      *)
(*                                                                         *)
(* A JavaScript value is a record: t is its kind ("null", "undefined",     *)
(* "string", "number", "boolean", "object" for a nested object, "array"),  *)
(* s the text of a primitive and a the elements of an array.  An object is *)
(* the sequence of its entries [k, v] in insertion order, with no key      *)
(* twice.  The empty sequence is {} and also what `meta || {}` makes of a  *)
(* missing meta.                                                           *)
(***************************************************************************)
Val(t, s, a) == [t |-> t, s |-> s, a |-> a]
Null == Val("null", "", <<>>)
Undefined == Val("undefined", "", <<>>)
Str(s) == Val("string", s, <<>>)
Num(s) == Val("number", s, <<>>)
Bool(s) == Val("boolean", s, <<>>)
Obj == Val("object", "", <<>>)
Arr(a) == Val("array", "", a)

Scalars ==
    {Null, Undefined, Str(""), Str("x"), Num("0"), Num("1"),
     Bool("false"), Bool("true"), Obj}
Elements == {Str("x"), Num("1"), Null}
Arrays == {Arr(a) : a \in UNION {[1..n -> Elements] : n \in 0..MaxArrLen}}
Values == Scalars \cup Arrays
Keys == {"title", "url"}
Entry(k, v) == [k |-> k, v |-> v]
Metas ==
    {<<>>}
    \cup {<<Entry(k, v)>> : k \in Keys, v \in Values}
    \cup {<<Entry(k1, v1), Entry(k2, v2)>> :
            <<k1, k2>> \in {p \in Keys \X Keys : p[1] # p[2]},
            <<v1, v2>> \in Values \X Values}

HasKey(o, k) == \E i \in 1..Len(o) : o[i].k = k
Get(o, k) == o[CHOOSE i \in 1..Len(o) : o[i].k = k].v
\* out[k] = v
Put(o, k, v) ==
    IF HasKey(o, k)
    THEN [i \in 1..Len(o) |-> IF o[i].k = k THEN Entry(k, v) ELSE o[i]]
    ELSE Append(o, Entry(k, v))

\* v === null || v === undefined
IsNullish(v) == v.t \in {"null", "undefined"}
\* v.filter((x) => typeof x === "string")
IsStringValue(x) == x.t = "string"
StringsOfUnfiltered(a) == a
StringsOf(a) == SelectSeq(a, IsStringValue)
\* ["string", "number", "boolean"].includes(typeof v)
IsTruthyPrimitive(v) ==
    v.t \in {"string", "number", "boolean"} /\ v.s \notin {"", "0", "false"}
IsPrimitive(v) == v.t \in {"string", "number", "boolean"}

\* The body of the for loop over Object.entries(meta), from entry i on.
RECURSIVE CleanLoop(_, _, _)
CleanLoop(m, i, acc) ==
    IF i > Len(m) THEN acc
    ELSE LET k == m[i].k
             v == m[i].v
         IN  IF IsNullish(v) THEN CleanLoop(m, i + 1, acc)
             ELSE IF v.t = "array"
             THEN LET strings == StringsOf(v.a)
                  IN  IF Len(strings) > 0
                      THEN CleanLoop(m, i + 1, Put(acc, k, Arr(strings)))
                      ELSE CleanLoop(m, i + 1, acc)
             ELSE IF IsPrimitive(v) THEN CleanLoop(m, i + 1, Put(acc, k, v))
             ELSE CleanLoop(m, i + 1, acc)
cleanMeta(m) == CleanLoop(m, 1, <<>>)

InitMeta ==
    /\ meta \in Metas
    /\ out = <<>>
    /\ mpc = "call"
    /\ ChunkIdle
    /\ RerankIdle
    /\ ServerIdle

CleanMetaCall ==
    /\ mpc = "call"
    /\ out' = cleanMeta(meta)
    /\ mpc' = "done"
    /\ UNCHANGED <<meta, chunkVars, rerankVars>>
    /\ UNCHANGED serverVars

NextMeta == CleanMetaCall

SpecMeta == InitMeta /\ [][NextMeta]_vars

(***************************************************************************)
(* Metadata sanitizer: properties                                          *)
(***************************************************************************)
MetaDone == mpc = "done"
AllStrings(a) == \A i \in 1..Len(a) : a[i].t = "string"
NoStrings(a) == \A i \in 1..Len(a) : a[i].t # "string"

\* C6 as stated: a key whose value is null, undefined, a nested object or an
\* array with a non-string element is absent from the output; an array is
\* kept only when all its elements are strings.
C6_AsStated ==
    MetaDone =>
        \A i \in 1..Len(meta) :
            LET v == meta[i].v
            IN  /\ (IsNullish(v) \/ v.t = "object"
                        \/ (v.t = "array" /\ ~AllStrings(v.a)))
                    => ~HasKey(out, meta[i].k)
                /\ (v.t = "array" /\ HasKey(out, meta[i].k)) => AllStrings(v.a)
\* C6, amended: a key whose value is null, undefined, a nested object or an
\* array with no string element is absent from the output; an array with at
\* least one string element is kept as the array of its string elements, in
\* order, the others removed; so every array of the output is non-empty and
\* holds strings only.
C6_Sanitized ==
    MetaDone =>
        /\ \A i \in 1..Len(meta) :
              LET v == meta[i].v
                  k == meta[i].k
              IN  /\ (IsNullish(v) \/ v.t = "object"
                          \/ (v.t = "array" /\ NoStrings(v.a)))
                      => ~HasKey(out, k)
                  /\ (v.t = "array" /\ ~NoStrings(v.a)) =>
                        /\ HasKey(out, k)
                        /\ Get(out, k) = Arr(SelectSeq(v.a, IsStringValue))
        /\ \A j \in 1..Len(out) :
              /\ ~IsNullish(out[j].v)
              /\ out[j].v.t # "object"
              /\ out[j].v.t = "array" =>
                    Len(out[j].v.a) > 0 /\ AllStrings(out[j].v.a)
\* A mixed array was sanitized next to a dropped key.
C6_Witness ==
    /\ MetaDone
    /\ \E i, j \in 1..Len(meta) :
          /\ meta[i].v.t = "array"
          /\ ~AllStrings(meta[i].v.a) /\ ~NoStrings(meta[i].v.a)
          /\ HasKey(out, meta[i].k)
          /\ meta[j].v.t = "array" /\ meta[j].v.a # <<>> /\ NoStrings(meta[j].v.a)

\* C7: every key with a string, number or boolean value is in the output with
\* the same value, and the output has no key the input lacks.
C7_PrimitivesKept ==
    MetaDone =>
        /\ \A i \in 1..Len(meta) :
              meta[i].v.t \in {"string", "number", "boolean"} =>
                  HasKey(out, meta[i].k) /\ Get(out, meta[i].k) = meta[i].v
        /\ \A j \in 1..Len(out) : HasKey(meta, out[j].k)
\* A falsy primitive was kept next to a dropped key.
C7_Witness ==
    /\ MetaDone
    /\ Len(meta) = 2 /\ Len(out) = 1
    /\ out[1].v \in {Str(""), Num("0"), Bool("false")}

(***************************************************************************)
(* Rerank client                                                           *)
(*                                                                         *)
(* A candidate is a record: kind "object" (a source, identified by its     *)
(* reference ref), "string" (identified by its text) or "other" (null).    *)
(* Two candidates are the same Set member exactly when the records are     *)
(* equal.  A result of the provider carries an index and, when hasScore    *)
(* holds, a relevance_score.                                               *)
(***************************************************************************)
Cand(kind, ref, txt) == [kind |-> kind, ref |-> ref, text |-> txt]
NoCand == Cand("undefined", 0, "")
Candidates ==
    {Cand("object", 1, "a"), Cand("object", 2, "b"), Cand("object", 3, ""),
     Cand("string", 0, "a"), Cand("other", 0, "")}
DocumentLists == UNION {[1..n -> Candidates] : n \in 0..MaxDocs}

Result(i, h, sc) == [index |-> i, hasScore |-> h, relevance_score |-> sc]
Results ==
    {Result(i, TRUE, sc) : i \in 0..MaxDocs, sc \in {0 - 1, 1}}
    \cup {Result(i, FALSE, 0) : i \in 0..MaxDocs}
ResultLists == UNION {[1..n -> Results] : n \in 0..MaxDocs}

\* documents.map((d, i) => ({text, _origIndex: i, _orig: d}))
NormEntry(d, i) ==
    [text |-> IF d.kind \in {"string", "object"} THEN d.text ELSE "",
     origIndex |-> i,
     orig |-> d]
HasText(x) == x.text # ""
\* .filter((x) => x.text)
Norm(docs) ==
    SelectSeq([i \in 1..Len(docs) |-> NormEntry(docs[i], i - 1)], HasText)

\* r.relevance_score ?? 0
ScoreOrLowest(r) == IF r.hasScore THEN r.relevance_score ELSE 0 - 2
ScoreOrZero(r) == IF r.hasScore THEN r.relevance_score ELSE 0

\* results.sort((a, b) => (b.relevance_score ?? 0) - (a.relevance_score ?? 0)):
\* a stable sort; r goes before the first element the comparator puts after it.
RECURSIVE InsertDesc(_, _)
InsertDesc(sorted, r) ==
    IF sorted = <<>> THEN <<r>>
    ELSE IF ScoreOrZero(Head(sorted)) - ScoreOrZero(r) < 0
         THEN <<r>> \o sorted
         ELSE <<Head(sorted)>> \o InsertDesc(Tail(sorted), r)
RECURSIVE SortFrom(_, _, _)
SortFrom(rs, i, acc) ==
    IF i > Len(rs) THEN acc ELSE SortFrom(rs, i + 1, InsertDesc(acc, rs[i]))
Unsorted(rs) == rs
SortByScoreDesc(rs) == SortFrom(rs, 1, <<>>)

\* norm[r.index]?._orig
OrigAt(norm, r) ==
    IF r.index >= 0 /\ r.index < Len(norm) THEN norm[r.index + 1].orig ELSE NoCand
\* .filter(Boolean): undefined, null and "" are dropped
Truthy(d) ==
    /\ d.kind \notin {"undefined", "other"}
    /\ ~(d.kind = "string" /\ d.text = "")
Reordered(norm, sorted) ==
    SelectSeq([i \in 1..Len(sorted) |-> OrigAt(norm, sorted[i])], Truthy)

Members(sq) == {sq[i] : i \in 1..Len(sq)}
\* if (reordered.length < documents.length)
\*     for (const d of documents) if (!used.has(d)) reordered.push(d)
AppendUnused(reordered, docs) ==
    IF Len(reordered) < Len(docs)
    THEN LET used == Members(reordered)
             Unused(d) == d \notin used
         IN  reordered \o SelectSeq(docs, Unused)
    ELSE reordered

\* The value returned after a successful call.
RerankSuccess(docs, rs) ==
    AppendUnused(Reordered(Norm(docs), SortByScoreDesc(rs)), docs)
\* return documents, when no API key is set
NoKeyResult(docs) == docs
\* return documents, when nothing has text
NoDocsResult(docs) == docs
\* return documents, in the catch block
FallbackEmpty(docs) == <<>>
FallbackResult(docs) == docs

InitRerank ==
    /\ documents \in DocumentLists
    /\ hasKey \in BOOLEAN
    /\ response = NoResponse
    /\ reranked = <<>>
    /\ rpc = "start"
    /\ ChunkIdle
    /\ MetaIdle
    /\ ServerIdle

\* if (!process.env.COHERE_API_KEY) return documents
RerankNoKey ==
    /\ rpc = "start"
    /\ ~hasKey
    /\ reranked' = NoKeyResult(documents)
    /\ rpc' = "done"
    /\ UNCHANGED <<documents, hasKey, response, chunkVars, metaVars>>
    /\ UNCHANGED serverVars

\* if (norm.length === 0) return documents
RerankNoDocs ==
    /\ rpc = "start"
    /\ hasKey
    /\ Len(Norm(documents)) = 0
    /\ reranked' = NoDocsResult(documents)
    /\ rpc' = "done"
    /\ UNCHANGED <<documents, hasKey, response, chunkVars, metaVars>>
    /\ UNCHANGED serverVars

\* await axios.post(...): the request is sent
RerankPost ==
    /\ rpc = "start"
    /\ hasKey
    /\ Len(Norm(documents)) > 0
    /\ rpc' = "awaiting"
    /\ UNCHANGED <<documents, hasKey, response, reranked, chunkVars, metaVars>>
    /\ UNCHANGED serverVars

\* The provider answers; res.data.results that is no array counts as [].
RerankOk ==
    /\ rpc = "awaiting"
    /\ \E rs \in ResultLists :
          /\ response' = [status |-> "ok", results |-> rs]
          /\ reranked' = RerankSuccess(documents, rs)
    /\ rpc' = "done"
    /\ UNCHANGED <<documents, hasKey, chunkVars, metaVars>>
    /\ UNCHANGED serverVars

\* The call throws (network error, timeout, error status): the catch block.
RerankFail ==
    /\ rpc = "awaiting"
    /\ response' = [status |-> "failed", results |-> <<>>]
    /\ reranked' = FallbackResult(documents)
    /\ rpc' = "done"
    /\ UNCHANGED <<documents, hasKey, chunkVars, metaVars>>
    /\ UNCHANGED serverVars

NextRerank ==
    \/ RerankNoKey
    \/ RerankNoDocs
    \/ RerankPost
    \/ RerankOk
    \/ RerankFail

SpecRerank == InitRerank /\ [][NextRerank]_vars

(***************************************************************************)
(* Rerank client: properties                                               *)
(***************************************************************************)
RerankDone == rpc = "done"

\* C8: when the provider call fails or no API key is set, rerank returns (it
\* does not throw) the list it was given, same elements in the same order.
C8_Fallback ==
    /\ response.status = "failed" => RerankDone /\ reranked = documents
    /\ (~hasKey /\ rpc # "start") => RerankDone /\ reranked = documents
\* The call failed for a list of two different candidates.
C8_Witness ==
    /\ RerankDone
    /\ response.status = "failed"
    /\ Len(documents) = 2 /\ documents[1] # documents[2]

Distinct(sq) == \A i, j \in 1..Len(sq) : i # j => sq[i] # sq[j]
Count(d, sq) == Cardinality({i \in 1..Len(sq) : sq[i] = d})
\* The candidates the provider's results name.
Ranked ==
    {OrigAt(Norm(documents), response.results[i]) :
        i \in 1..Len(response.results)} \ {NoCand}
IsRanked(d) == d \in Ranked
IsUnranked(d) == d \notin Ranked

\* C9: after a successful call the output holds each input candidate exactly
\* once, the ranked ones first, then the unranked ones in their original order.
C9_Permutation ==
    (RerankDone /\ response.status = "ok" /\ Distinct(documents)) =>
        /\ \A i \in 1..Len(documents) : Count(documents[i], reranked) = 1
        /\ Len(reranked) = Len(documents)
        /\ Members(SubSeq(reranked, 1, Cardinality(Ranked))) = Ranked
        /\ SelectSeq(reranked, IsUnranked) = SelectSeq(documents, IsUnranked)

\* The valid results, and the ways to put them in an order.
ValidResults ==
    SelectSeq(response.results,
              LAMBDA r : OrigAt(Norm(documents), r) # NoCand)
Orders(n) == {f \in [1..n -> 1..n] : \A i, j \in 1..n : i # j => f[i] # f[j]}
\* C10: after a successful call the ranked candidates come in non-increasing
\* order of the provider's relevance score, a missing score counting as 0.
C10_ScoreOrder ==
    (RerankDone /\ response.status = "ok") =>
        LET valid == ValidResults
            n == Len(valid)
            Eff(r) == IF r.hasScore THEN r.relevance_score ELSE 0
        IN  /\ Len(reranked) >= n
            /\ \E f \in Orders(n) :
                  /\ \A i \in 1..n :
                        reranked[i] = OrigAt(Norm(documents), valid[f[i]])
                  /\ \A i \in 1..(n - 1) :
                        Eff(valid[f[i]]) >= Eff(valid[f[i + 1]])
\* Two different candidates were ranked, the second one higher, and one of
\* them without a score.
C10_Witness ==
    /\ RerankDone /\ response.status = "ok"
    /\ Len(documents) = 2 /\ Len(Norm(documents)) = 2
    /\ Len(response.results) = 2
    /\ response.results[1].index = 0 /\ response.results[2].index = 1
    /\ ~response.results[1].hasScore
    /\ response.results[2].hasScore /\ response.results[2].relevance_score = 1
    /\ reranked = <<documents[2], documents[1]>>

(***************************************************************************)
(* POST /query                                                             *)
(*                                                                         *)
(* A record of the vector store is [ns, id, docId, text], its id the pair   *)
(* <<docId, chunk>> that stands for "docId::chunk".  The generation        *)
(* provider's raw text is a sequence of tokens: "F" is a code fence, "j"   *)
(* the word json, " " white space, "A" a JSON object with a string answer  *)
(* and citations, "N" a JSON object whose answer is a number, "B" text     *)
(* that starts with { and is no JSON, "x" prose.                           *)
(***************************************************************************)
MaxRawLen == 3

Rec(ns, id, docId, txt) == [ns |-> ns, id |-> id, docId |-> docId, text |-> txt]
QueryRecords ==
    {Rec("default", <<"D", 0>>, "D", "a"), Rec("default", <<"D", 1>>, "D", "b"),
     Rec("default", <<"E", 0>>, "E", ""), Rec("other", <<"X", 0>>, "X", "c")}
InNamespace(st, ns) == {r \in st : r.ns = ns}
\* index.namespace("default").query({topK, ...}): up to topK records of the
\* namespace, each at most once, in the order of their similarity.
MatchLists(st) ==
    {m \in UNION {[1..n -> InNamespace(st, "default")] : n \in 0..MaxDocs} :
        \A i, j \in 1..Len(m) : i # j => m[i] # m[j]}

QueryBodies == {Undefined, Null, Str(""), Str("q"), Num("1"), Obj}
\* !query || typeof query !== "string"
IsFalsy(v) ==
    \/ v.t \in {"null", "undefined"}
    \/ v.t \in {"string", "number", "boolean"} /\ v.s \in {"", "0", "false"}
AcceptsAnyString(v) == v.t # "string"
QueryInvalid(v) == IsFalsy(v) \/ v.t # "string"

Http(st, ans, cit, src, err) ==
    [status |-> st, answer |-> ans, citations |-> cit, sources |-> src,
     error |-> err]
BadQueryMsg == "Body should be { query: string }"
NoDocsMsg == "no documents provided"
NotFoundMsg == "I couldn't find an answer in the provided documents."
ParseErrorMsg == "[Parsing error] Please retry."
UnreliableMsg == "I couldn't format a reliable answer from the sources."

\* (search?.matches || []).map((m, i) => ({num: i + 1, id, text, ...}))
\*     .filter((s) => s.text)
SourceHasText(x) == x.text # ""
SourcesOf(m) ==
    SelectSeq([i \in 1..Len(m) |-> [num |-> i, id |-> m[i].id, text |-> m[i].text]],
              SourceHasText)
\* The sources as rerank sees them: objects, told apart by identity.
ToCands(src) == [i \in 1..Len(src) |-> Cand("object", src[i].id, src[i].text)]
\* sources.map((s, i) => ({...s, num: i + 1}))
KeepNum(cs) == [i \in 1..Len(cs) |-> [num |-> 1, id |-> cs[i].ref, text |-> cs[i].text]]
Renumber(cs) == [i \in 1..Len(cs) |-> [num |-> i, id |-> cs[i].ref, text |-> cs[i].text]]

\* sources.map((s) => `[${s.num}] ${s.text}`): the numbered texts of the prompt
PromptSources(src) ==
    [i \in 1..Len(src) |-> [num |-> src[i].num, text |-> src[i].text]]

\* Object.values(stats.namespaces).reduce((sum, ns) => sum + count(ns), 0)
TotalVectors(st) == Cardinality(st)
\* totalVectors === 0 ? "no documents provided" : "I couldn't find ..."
NoSourcesAnswer(total) == IF total = 0 THEN NoDocsMsg ELSE NotFoundMsg

RawTokens == {"F", "j", " ", "A", "N", "B", "x"}
RawTexts == UNION {[1..n -> RawTokens] : n \in 0..MaxRawLen}

\* String.prototype.trim
RECURSIVE TrimLeft(_)
TrimLeft(r) == IF r # <<>> /\ Head(r) = " " THEN TrimLeft(Tail(r)) ELSE r
RECURSIVE TrimRight(_)
TrimRight(r) ==
    IF r # <<>> /\ r[Len(r)] = " " THEN TrimRight(SubSeq(r, 1, Len(r) - 1)) ELSE r
Trim(r) == TrimRight(TrimLeft(r))
\* .replace(/^FENCE(?:json)?/i, ""), FENCE being three backquotes
StripOpenFence(r) ==
    IF r # <<>> /\ r[1] = "F"
    THEN IF Len(r) >= 2 /\ r[2] = "j" THEN SubSeq(r, 3, Len(r))
         ELSE SubSeq(r, 2, Len(r))
    ELSE r
\* .replace(/FENCE$/i, "")
StripCloseFence(r) ==
    IF r # <<>> /\ r[Len(r)] = "F" THEN SubSeq(r, 1, Len(r) - 1) ELSE r
Cleaned(r) == Trim(StripCloseFence(StripOpenFence(Trim(r))))

\* What JSON.parse returns; kind "null" stands for the null of the catch.
Parsed(kind, ans, cit) == [kind |-> kind, answer |-> ans, citations |-> cit]
ParsedNull == Parsed("null", Undefined, <<>>)
\* A citation is kept when its `sources` is an array.
Citation(span, ok) == [span |-> span, sourcesIsArray |-> ok]
JsonParses(c) == c \in {<<"A">>, <<"N">>}
JsonParse(c) ==
    IF c = <<"A">>
    THEN Parsed("object", Str("answer [1]"),
                <<Citation("s1", TRUE), Citation("s2", FALSE)>>)
    ELSE Parsed("object", Num("5"), <<>>)
\* parseModelJson(raw)
parseModelJson(r) ==
    IF JsonParses(Cleaned(r)) THEN JsonParse(Cleaned(r)) ELSE ParsedNull

\* raw && raw.trim().startsWith("{")
StartsWithBrace(r) == Trim(r) # <<>> /\ Trim(r)[1] \in {"A", "N", "B"}
\* parsed?.answer?.trim() throws when answer is neither nullish nor a string
AnswerThrows(pj) == pj.answer.t \notin {"null", "undefined", "string"}
AlwaysParseError(pj, r) ==
    IF pj.answer.t = "string" /\ pj.answer.s # "" THEN pj.answer.s
    ELSE ParseErrorMsg
AnswerOf(pj, r) ==
    IF pj.answer.t = "string" /\ pj.answer.s # "" THEN pj.answer.s
    ELSE IF StartsWithBrace(r) THEN ParseErrorMsg
    ELSE UnreliableMsg
\* Array.isArray(parsed?.citations) ? parsed.citations.filter(...) : []
CitationKept(c) == c.sourcesIsArray
CitationsOf(pj) == SelectSeq(pj.citations, CitationKept)

\* A query request has arrived.
QueryReceived ==
    /\ hasKey \in BOOLEAN
    /\ qbody \in QueryBodies
    /\ qpc = "received"
    /\ qsources = <<>>
    /\ qcalls = <<>>
    /\ qfailed = {}
    /\ qraw = <<>>
    /\ qresp = NoHttp
    /\ documents = <<>> /\ response = NoResponse /\ reranked = <<>> /\ rpc = "idle"
InitQuery ==
    /\ store \in SUBSET QueryRecords
    /\ QueryReceived
    /\ ChunkIdle
    /\ MetaIdle
    /\ UpsertIdle
    /\ ResetIdle
    /\ UtilIdle

QueryFrame ==
    UNCHANGED <<store, qbody, chunkVars, metaVars, rerankVars, upsertVars, resetVars,
                utilVars>>
Respond(r) == qresp' = r /\ qpc' = "responded"

QueryValidateStartsTwo ==
    /\ qpc = "received"
    /\ IF QueryInvalid(qbody)
       THEN Respond(Http(400, "", <<>>, <<>>, BadQueryMsg)) /\ UNCHANGED qcalls
       ELSE qpc' = "embedding" /\ qcalls' = qcalls \o <<"embed", "retrieve">>
                /\ UNCHANGED qresp
    /\ UNCHANGED <<qsources, qraw>>
    /\ UNCHANGED qfailed
    /\ QueryFrame
\* if (!query || typeof query !== "string") return res.status(400)...;
\* otherwise the query is embedded.
QueryValidate ==
    /\ qpc = "received"
    /\ IF QueryInvalid(qbody)
       THEN Respond(Http(400, "", <<>>, <<>>, BadQueryMsg)) /\ UNCHANGED qcalls
       ELSE qpc' = "embedding" /\ qcalls' = Append(qcalls, "embed")
                /\ UNCHANGED qresp
    /\ UNCHANGED <<qsources, qraw>>
    /\ UNCHANGED qfailed
    /\ QueryFrame

\* embedText returns: the vector store is queried.
QueryEmbedOk ==
    /\ qpc = "embedding"
    /\ qpc' = "retrieving"
    /\ qcalls' = Append(qcalls, "retrieve")
    /\ UNCHANGED <<qsources, qraw, qresp>>
    /\ UNCHANGED qfailed
    /\ QueryFrame

QueryEmbedFailSwallowed ==
    /\ qpc = "embedding"
    /\ qpc' = "retrieving"
    /\ qcalls' = Append(qcalls, "retrieve")
    /\ UNCHANGED <<qsources, qraw, qresp>>
    /\ qfailed' = qfailed \cup {"embed"}
    /\ QueryFrame
\* embedText throws: the outer catch answers 500.
QueryEmbedFail ==
    /\ qpc = "embedding"
    /\ Respond(Http(500, "", <<>>, <<>>, "Query failed"))
    /\ UNCHANGED <<qsources, qcalls, qraw>>
    /\ qfailed' = qfailed \cup {"embed"}
    /\ QueryFrame

AfterRerankAlwaysGenerate(cs) ==
    /\ qsources' = Renumber(cs)
    /\ qpc' = "generating" /\ qcalls' = Append(qcalls, "generate")
    /\ UNCHANGED <<qraw, qresp>>
\* After rerank returned cs: renumber, then either the no-sources branch
\* (describeIndexStats) or the generation call.
AfterRerank(cs) ==
    /\ qsources' = Renumber(cs)
    /\ IF Len(cs) = 0
       THEN qpc' = "stats" /\ qcalls' = Append(qcalls, "stats")
       ELSE qpc' = "generating" /\ qcalls' = Append(qcalls, "generate")
    /\ UNCHANGED <<qraw, qresp>>

\* The store answers with matches; rerank is entered, and returns at once
\* without a key or without anything to rerank, else posts to the provider.
QueryRetrieveOk ==
    /\ qpc = "retrieving"
    /\ \E m \in MatchLists(store) :
          LET docs == ToCands(SourcesOf(m))
          IN  IF ~hasKey THEN AfterRerank(NoKeyResult(docs))
              ELSE IF Len(Norm(docs)) = 0 THEN AfterRerank(NoDocsResult(docs))
              ELSE /\ qsources' = SourcesOf(m)
                   /\ qpc' = "reranking"
                   /\ qcalls' = Append(qcalls, "rerank")
                   /\ UNCHANGED <<qraw, qresp>>
    /\ UNCHANGED qfailed
    /\ QueryFrame

\* The store query throws: the outer catch answers 500.
QueryRetrieveFail ==
    /\ qpc = "retrieving"
    /\ Respond(Http(500, "", <<>>, <<>>, "Query failed"))
    /\ UNCHANGED <<qsources, qcalls, qraw>>
    /\ qfailed' = qfailed \cup {"retrieve"}
    /\ QueryFrame

QueryRerankOk ==
    /\ qpc = "reranking"
    /\ \E rs \in ResultLists : AfterRerank(RerankSuccess(ToCands(qsources), rs))
    /\ UNCHANGED qfailed
    /\ QueryFrame

QueryRerankFail ==
    /\ qpc = "reranking"
    /\ AfterRerank(FallbackResult(ToCands(qsources)))
    /\ qfailed' = qfailed \cup {"rerank"}
    /\ QueryFrame

NoSourcesResponse(total) == Http(200, NoSourcesAnswer(total), <<>>, <<>>, "")

\* describeIndexStats returns: the totals of all namespaces are summed.
QueryStatsOk ==
    /\ qpc = "stats"
    /\ Respond(NoSourcesResponse(TotalVectors(store)))
    /\ UNCHANGED <<qsources, qcalls, qraw>>
    /\ UNCHANGED qfailed
    /\ QueryFrame

\* describeIndexStats throws: totalVectors keeps its initial 0.
QueryStatsFail ==
    /\ qpc = "stats"
    /\ Respond(NoSourcesResponse(0))
    /\ UNCHANGED <<qsources, qcalls, qraw>>
    /\ qfailed' = qfailed \cup {"stats"}
    /\ QueryFrame

\* The generation provider answers with raw text r.
QueryGenerateOk ==
    /\ qpc = "generating"
    /\ \E r \in RawTexts :
          LET pj == parseModelJson(r)
          IN  /\ qraw' = r
              /\ IF AnswerThrows(pj)
                 THEN Respond(Http(500, "", <<>>, <<>>, "Query failed"))
                 ELSE Respond(Http(200, AnswerOf(pj, r), CitationsOf(pj),
                                   qsources, ""))
    /\ UNCHANGED <<qsources, qcalls>>
    /\ UNCHANGED qfailed
    /\ QueryFrame

QueryGenerateFailRethrown ==
    /\ qpc = "generating"
    /\ Respond(Http(500, "", <<>>, <<>>, "Query failed"))
    /\ UNCHANGED <<qsources, qcalls, qraw>>
    /\ qfailed' = qfailed \cup {"generate"}
    /\ QueryFrame
\* The generation call throws: parsed stays null and raw "".
QueryGenerateFail ==
    /\ qpc = "generating"
    /\ Respond(Http(200, AnswerOf(ParsedNull, <<>>), CitationsOf(ParsedNull),
                    qsources, ""))
    /\ UNCHANGED <<qsources, qcalls, qraw>>
    /\ qfailed' = qfailed \cup {"generate"}
    /\ QueryFrame

NextQuery ==
    \/ QueryValidate
    \/ QueryEmbedOk
    \/ QueryEmbedFail
    \/ QueryRetrieveOk
    \/ QueryRetrieveFail
    \/ QueryRerankOk
    \/ QueryRerankFail
    \/ QueryStatsOk
    \/ QueryStatsFail
    \/ QueryGenerateOk
    \/ QueryGenerateFail

SpecQuery == InitQuery /\ [][NextQuery]_vars

(***************************************************************************)
(* POST /query: properties                                                 *)
(***************************************************************************)
Called(c) == \E i \in 1..Len(qcalls) : qcalls[i] = c
QueryResponded == qpc = "responded"
\* Retrieval and reranking are over and left no source.
ZeroSources ==
    /\ Called("retrieve")
    /\ "retrieve" \notin qfailed
    /\ qpc \notin {"retrieving", "reranking"}
    /\ qsources = <<>>

\* C11: when retrieval and reranking leave zero sources, the generation
\* provider is never called and the response has sources [] and citations [].
C11_NoSourcesNoGeneration ==
    ZeroSources =>
        /\ ~Called("generate")
        /\ QueryResponded =>
              /\ qresp.status = 200
              /\ qresp.sources = <<>>
              /\ qresp.citations = <<>>
\* A query answered without sources although the store holds a record with text.
C11_Witness ==
    /\ ZeroSources /\ QueryResponded
    /\ \E r \in store : r.ns = "default" /\ r.text # ""

\* C12: with zero sources the answer is "no documents provided" exactly when
\* the store holds no record, and the could-not-find message exactly when it
\* holds at least one.
C12_MessageMatchesStore ==
    (ZeroSources /\ QueryResponded) =>
        /\ qresp.answer = "no documents provided" <=> store = {}
        /\ qresp.answer = "I couldn't find an answer in the provided documents."
              <=> store # {}

\* C13: when the embedding call or the store query fails, the request has
\* ended with HTTP 500 and neither the rerank provider nor the generation
\* provider was or is called.
C13_FatalFailure ==
    (qfailed \cap {"embed", "retrieve"} # {}) =>
        /\ QueryResponded
        /\ qresp.status = 500
        /\ ~Called("rerank")
        /\ ~Called("generate")
        /\ ~ENABLED NextQuery
\* The store query failed after the embedding succeeded.
C13_Witness == "retrieve" \in qfailed /\ QueryResponded /\ store # {}

\* C14: when the generation call fails (there is at least one source) the
\* request ends with HTTP 200, the fixed fallback answer, no citations and the
\* reranked sources.
C14_GenerationFallback ==
    ("generate" \in qfailed) =>
        /\ QueryResponded
        /\ qresp.status = 200
        /\ qresp.answer = "I couldn't format a reliable answer from the sources."
        /\ qresp.citations = <<>>
        /\ Len(qsources) >= 1
        /\ qresp.sources = qsources
\* The generation call failed after the reranker had put two sources in order.
C14_Witness ==
    /\ "generate" \in qfailed
    /\ Called("rerank") /\ "rerank" \notin qfailed
    /\ Len(qresp.sources) = 2

\* The generation provider answered and its text, cleaned, is no JSON.
ParseFailed ==
    /\ QueryResponded
    /\ Called("generate")
    /\ "generate" \notin qfailed
    /\ ~JsonParses(Cleaned(qraw))
\* C15 as stated: whenever the raw text fails to parse, the answer is the
\* parsing-error message and no exception propagates.
C15_AsStated ==
    ParseFailed =>
        qresp.status = 200 /\ qresp.answer = "[Parsing error] Please retry."
\* C15, amended: whenever the raw text fails to parse, no exception propagates
\* (HTTP 200) and the answer is the parsing-error message if the trimmed raw
\* text starts with "{", else the could-not-format message.
C15_ParseFailure ==
    ParseFailed =>
        /\ qresp.status = 200
        /\ qresp.answer =
              IF StartsWithBrace(qraw) THEN "[Parsing error] Please retry."
              ELSE "I couldn't format a reliable answer from the sources."
\* Both answers occur: a broken object behind white space, and a fenced one.
C15_Witness ==
    /\ ParseFailed
    /\ qraw \in {<<" ", "B">>, <<"F", "j", "B">>}

(***************************************************************************)
(* POST /upsert.  Every request keeps its own locals (the document it is   *)
(* at, its chunks, its vectors, its totals); the store is shared.  A       *)
(* request gives the control away at every await, so the steps of two      *)
(* requests interleave at the external calls.                              *)
(***************************************************************************)
MaxChunks == 2
MaxBatch == 2

\* A text of n chunks under the default sizes, every character being c.
TextOfChunks(n, c) ==
    [i \in 1..((n - 1) * (DefaultChunkSize - DefaultOverlap) + 1) |-> c]
Doc(id, txt) == [id |-> id, text |-> txt]
DocIds == {"D", "E"}
ValidDocs(c) == {Doc(id, TextOfChunks(n, c)) : id \in DocIds, n \in 1..MaxChunks}
\* A document without id, and one without text.
InvalidDocs == {Doc("", TextOfChunks(1, 1)), Doc("D", <<>>)}
\* req.body.docs: isArray is Array.isArray(docs)
Body(isArray, docs) == [isArray |-> isArray, docs |-> docs]
Bodies ==
    {Body(FALSE, <<>>)}
    \cup {Body(TRUE, d) :
            d \in UNION {[1..n -> ValidDocs(1) \cup InvalidDocs] : n \in 0..MaxBatch}}
\* The batch of a second, concurrent request: another text for document D.
SecondBodies == {Body(TRUE, <<Doc("D", TextOfChunks(n, 2))>>) : n \in 1..MaxChunks}

\* doc.title, doc.url, ...: undefined when the document has no such field
DocField(doc, k) == IF k \in DOMAIN doc THEN doc[k] ELSE Undefined
\* { id: `${docId}::${i}`, values, metadata: cleanMeta({...}) }
VectorOf(doc, docId, i, chunk) ==
    LET metadata ==
            cleanMeta(<<Entry("text", Str(chunk)), Entry("docId", Str(docId)),
                        Entry("chunk", Num(i)),
                        Entry("title", DocField(doc, "title")),
                        Entry("url", DocField(doc, "url")),
                        Entry("source", DocField(doc, "source")),
                        Entry("section", DocField(doc, "section")),
                        Entry("position", DocField(doc, "position"))>>)
    IN  Rec("default", <<docId, i>>, Get(metadata, "docId").s,
            Get(metadata, "text").s)

\* ns.deleteMany({ filter: { docId: { $eq: docId } } })
PurgeNothing(st, docId) == st
PurgeEffect(st, docId) ==
    st \ {r \in st : r.ns = "default" /\ r.docId = docId}
\* ns.upsert(vectors): a record replaces the stored record of the same id
WriteReplacesDoc(st, vectors) ==
    LET new == {vectors[i] : i \in 1..Len(vectors)}
    IN  {r \in st : \A v \in new : ~(r.ns = v.ns /\ r.docId = v.docId)} \cup new
WriteEffect(st, vectors) ==
    LET new == {vectors[i] : i \in 1..Len(vectors)}
    IN  {r \in st : \A v \in new : ~(r.ns = v.ns /\ r.id = v.id)} \cup new

\* What earlier upserts of a text left in the store.
StoredDoc(id, txt) ==
    LET old == chunkText(txt, DefaultChunkSize, DefaultOverlap)
    IN  {VectorOf(Doc(id, txt), id, i - 1, old[i]) : i \in 1..Len(old)}
\* An earlier version of E is stored, and none, a short or a long one of D.
OldStores ==
    {d \cup StoredDoc("E", TextOfChunks(1, 0)) :
        d \in {{}} \cup {StoredDoc("D", TextOfChunks(n, 0)) : n \in {1, MaxChunks}}}

UHttp(st, status, totalDocs, totalChunks, totalVectors, err) ==
    [status |-> st, body |-> status, totalDocs |-> totalDocs,
     totalChunks |-> totalChunks, totalVectors |-> totalVectors,
     count |-> totalChunks, error |-> err]
NoUpsertHttp == UHttp(0, "", 0, 0, 0, "")
BadDocsMsg == "Body should be { docs: [{id, text}, ...] }"
UpsertFailedMsg == "Upsert failed"
UpsertFailure == UHttp(500, "", 0, 0, 0, UpsertFailedMsg)

UReq(body) ==
    [pc |-> "received", body |-> body, k |-> 0, chunks |-> <<>>, i |-> 0,
     vectors |-> <<>>, totalChunks |-> 0, totalVectors |-> 0,
     embedCharSum |-> 0, resp |-> NoUpsertHttp]
\* A completed call: of request req, for chunk i of document k; n is the
\* number of records the store deleted or wrote, or of characters embedded.
LogEntry(r, call, k, i, ok, n) ==
    [req |-> r, call |-> call, k |-> k, i |-> i, ok |-> ok, n |-> n]

\* !Array.isArray(docs) || docs.length === 0
DocsInvalid(body) == ~body.isArray \/ Len(body.docs) = 0
\* !(!doc?.id || !doc?.text)
DocValid(doc) == doc.id # "" /\ doc.text # <<>>
\* The next document from position from on that the loop does not skip.
NextValidDoc(docs, from) ==
    IF \E j \in from..Len(docs) : DocValid(docs[j])
    THEN CHOOSE j \in from..Len(docs) :
            /\ DocValid(docs[j])
            /\ \A h \in from..(j - 1) : ~DocValid(docs[h])
    ELSE 0
\* for (const doc of docs), from position from on: skip the invalid
\* documents, start the purge of the next valid one, or send the response.
LoopFrom(q, from) ==
    LET j == NextValidDoc(q.body.docs, from)
    IN  IF j = 0
        THEN [q EXCEPT !.pc = "responded",
                       !.resp = UHttp(200, "upserted", Len(q.body.docs),
                                      q.totalChunks, q.totalVectors, "")]
        ELSE [q EXCEPT !.pc = "purging", !.k = j, !.chunks = <<>>, !.i = 0,
                       !.vectors = <<>>]
\* for (let i = 0; i < chunks.length; i++) await embedText(chunks[i]);
\* if (vectors.length) await ns.upsert(vectors)
EmbedLoop(q) ==
    IF q.i < Len(q.chunks) THEN [q EXCEPT !.pc = "embedding"]
    ELSE IF Len(q.vectors) > 0 THEN [q EXCEPT !.pc = "writing"]
    ELSE LoopFrom(q, q.k + 1)
\* const chunks = chunkText(doc.text); const vectors = []
AfterPurge(q) ==
    EmbedLoop([q EXCEPT
        !.chunks = chunkText(q.body.docs[q.k].text, DefaultChunkSize, DefaultOverlap),
        !.i = 0, !.vectors = <<>>])
CurDocId(q) == q.body.docs[q.k].id

InitUpsert ==
    /\ \E a \in Bodies :
         \E b \in {UpsertAbsent} \cup
                  (IF Len(a.docs) = 1 THEN {UReq(s) : s \in SecondBodies} ELSE {}) :
            ureq = [r \in Reqs |-> IF r = "A" THEN UReq(a) ELSE b]
    /\ ulog = <<>>
    /\ store \in OldStores
    /\ QueryIdle
    /\ ResetIdle
    /\ UtilIdle
    /\ ChunkIdle
    /\ MetaIdle
    /\ RerankIdle

UpsertFrame ==
    UNCHANGED <<queryVars, resetVars, chunkVars, metaVars, rerankVars, utilVars>>

UpsertValidate(r) ==
    /\ ureq[r].pc = "received"
    /\ ureq' = [ureq EXCEPT ![r] =
          IF DocsInvalid(@.body)
          THEN [@ EXCEPT !.pc = "responded",
                         !.resp = UHttp(400, "", 0, 0, 0, BadDocsMsg)]
          ELSE LoopFrom(@, 1)]
    /\ UNCHANGED <<store, ulog>>
    /\ UpsertFrame

UpsertPurgeOk(r) ==
    /\ ureq[r].pc = "purging"
    /\ store' = PurgeEffect(store, CurDocId(ureq[r]))
    /\ ulog' = Append(ulog, LogEntry(r, "purge", ureq[r].k, 0, TRUE,
                                 Cardinality(store) - Cardinality(store')))
    /\ ureq' = [ureq EXCEPT ![r] = AfterPurge(@)]
    /\ UpsertFrame

UpsertPurgeFailAborts(r) ==
    /\ ureq[r].pc = "purging"
    /\ ulog' = Append(ulog, LogEntry(r, "purge", ureq[r].k, 0, FALSE, 0))
    /\ ureq' = [ureq EXCEPT ![r] = [@ EXCEPT !.pc = "responded", !.resp = UpsertFailure]]
    /\ UNCHANGED store
    /\ UpsertFrame
UpsertPurgeFailRetried(r) ==
    /\ ureq[r].pc = "purging"
    /\ ulog' = Append(ulog, LogEntry(r, "purge", ureq[r].k, 0, FALSE, 0))
    /\ UNCHANGED <<ureq, store>>
    /\ UpsertFrame
\* catch (e) { console.warn(...) }: the failure is logged and the loop goes on
UpsertPurgeFail(r) ==
    /\ ureq[r].pc = "purging"
    /\ ulog' = Append(ulog, LogEntry(r, "purge", ureq[r].k, 0, FALSE, 0))
    /\ ureq' = [ureq EXCEPT ![r] = AfterPurge(@)]
    /\ UNCHANGED store
    /\ UpsertFrame

UpsertEmbedOk(r) ==
    /\ ureq[r].pc = "embedding"
    /\ ulog' = Append(ulog, LogEntry(r, "embed", ureq[r].k, ureq[r].i, TRUE,
                                 Len(ureq[r].chunks[ureq[r].i + 1])))
    /\ ureq' = [ureq EXCEPT ![r] =
          LET chunk == @.chunks[@.i + 1]
          IN  EmbedLoop([@ EXCEPT
                !.embedCharSum = @ + Len(chunk),
                !.vectors = Append(@, VectorOf(ureq[r].body.docs[ureq[r].k],
                                               CurDocId(ureq[r]), ureq[r].i, chunk)),
                !.i = @ + 1])]
    /\ UNCHANGED store
    /\ UpsertFrame

UpsertEmbedFailSkipsDoc(r) ==
    /\ ureq[r].pc = "embedding"
    /\ ulog' = Append(ulog, LogEntry(r, "embed", ureq[r].k, ureq[r].i, FALSE, 0))
    /\ ureq' = [ureq EXCEPT ![r] = LoopFrom(@, ureq[r].k + 1)]
    /\ UNCHANGED store
    /\ UpsertFrame
\* embedText throws: the outer catch answers 500
UpsertEmbedFail(r) ==
    /\ ureq[r].pc = "embedding"
    /\ ulog' = Append(ulog, LogEntry(r, "embed", ureq[r].k, ureq[r].i, FALSE, 0))
    /\ ureq' = [ureq EXCEPT ![r] = [@ EXCEPT !.pc = "responded", !.resp = UpsertFailure]]
    /\ UNCHANGED store
    /\ UpsertFrame

UpsertWriteOkCountsDocs(r) ==
    /\ ureq[r].pc = "writing"
    /\ store' = WriteEffect(store, ureq[r].vectors)
    /\ ulog' = Append(ulog, LogEntry(r, "write", ureq[r].k, 0, TRUE,
                                 Len(ureq[r].vectors)))
    /\ ureq' = [ureq EXCEPT ![r] =
          LoopFrom([@ EXCEPT !.totalVectors = @ + 1,
                             !.totalChunks = @ + Len(ureq[r].chunks)],
                   ureq[r].k + 1)]
    /\ UpsertFrame
UpsertWriteOk(r) ==
    /\ ureq[r].pc = "writing"
    /\ store' = WriteEffect(store, ureq[r].vectors)
    /\ ulog' = Append(ulog, LogEntry(r, "write", ureq[r].k, 0, TRUE,
                                 Len(ureq[r].vectors)))
    /\ ureq' = [ureq EXCEPT ![r] =
          LoopFrom([@ EXCEPT !.totalVectors = @ + Len(ureq[r].vectors),
                             !.totalChunks = @ + Len(ureq[r].chunks)],
                   ureq[r].k + 1)]
    /\ UpsertFrame

UpsertWriteFailUnanswered(r) ==
    /\ ureq[r].pc = "writing"
    /\ ulog' = Append(ulog, LogEntry(r, "write", ureq[r].k, 0, FALSE, 0))
    /\ ureq' = [ureq EXCEPT ![r] = [@ EXCEPT !.pc = "failed"]]
    /\ UNCHANGED store
    /\ UpsertFrame
\* ns.upsert throws: the outer catch answers 500
UpsertWriteFail(r) ==
    /\ ureq[r].pc = "writing"
    /\ ulog' = Append(ulog, LogEntry(r, "write", ureq[r].k, 0, FALSE, 0))
    /\ ureq' = [ureq EXCEPT ![r] = [@ EXCEPT !.pc = "responded", !.resp = UpsertFailure]]
    /\ UNCHANGED store
    /\ UpsertFrame

NextUpsert ==
    \E r \in Reqs :
        \/ UpsertValidate(r)
        \/ UpsertPurgeOk(r)
        \/ UpsertPurgeFail(r)
        \/ UpsertEmbedOk(r)
        \/ UpsertEmbedFail(r)
        \/ UpsertWriteOk(r)
        \/ UpsertWriteFail(r)

SpecUpsert == InitUpsert /\ [][NextUpsert]_vars

(***************************************************************************)
(* POST /upsert: properties                                                *)
(***************************************************************************)
UpsertDone(r) == ureq[r].pc = "responded" /\ ureq[r].resp.status = 200
\* The records "id::0" .. "id::(n-1)" of the n chunks of a text.
VersionRecords(id, txt) ==
    LET new == chunkText(txt, DefaultChunkSize, DefaultOverlap)
    IN  {Rec("default", <<id, i - 1>>, id, new[i]) : i \in 1..Len(new)}
StoredOf(id) == {r \in store : r.docId = id}
\* The positions of the valid documents of request r that carry the id.
DocsWithId(r, id) ==
    IF ureq[r].pc = "absent" THEN {}
    ELSE {j \in 1..Len(ureq[r].body.docs) :
            DocValid(ureq[r].body.docs[j]) /\ ureq[r].body.docs[j].id = id}
Logged(r, call, k, ok) ==
    \E n \in 1..Len(ulog) :
        ulog[n].req = r /\ ulog[n].call = call /\ ulog[n].k = k /\ ulog[n].ok = ok
LogPos(r, call) ==
    CHOOSE n \in 1..Len(ulog) : ulog[n].req = r /\ ulog[n].call = call

\* C16: when a request has completed an upsert of document id D, the purge
\* of D succeeded and no other request has a document D, the records of the
\* store with docId D are exactly D::0 .. D::(n-1) of the n chunks of the new
\* text; no record of an earlier version is left.
C16_OnlyNewVersion ==
    \A id \in DocIds :
        LET k == CHOOSE j \in DocsWithId("A", id) :
                    \A h \in DocsWithId("A", id) : h <= j
        IN  (/\ UpsertDone("A")
             /\ DocsWithId("A", id) # {}
             /\ DocsWithId("B", id) = {}
             /\ Logged("A", "purge", k, TRUE))
            => StoredOf(id) = VersionRecords(id, ureq["A"].body.docs[k].text)
\* The purge deleted the two records of the earlier version of D, the new
\* version has one chunk, and another document was written after it.
C16_Witness ==
    /\ UpsertDone("A")
    /\ ureq["B"].pc = "absent"
    /\ Len(ureq["A"].body.docs) = 2
    /\ DocsWithId("A", "D") = {1}
    /\ ulog[1] = LogEntry("A", "purge", 1, 0, TRUE, 2)
    /\ Cardinality(StoredOf("D")) = 1
    /\ DocsWithId("A", "E") = {2}
    /\ StoredOf("E") = VersionRecords("E", ureq["A"].body.docs[2].text)

\* Both requests upserted one document of the same id, both purges succeeded
\* and they completed before the first write, that of A, which completed
\* before that of B.
PurgesThenWrites ==
    /\ UpsertDone("A") /\ UpsertDone("B")
    /\ Len(ureq["A"].body.docs) = 1
    /\ ureq["A"].body.docs[1].id = ureq["B"].body.docs[1].id
    /\ Logged("A", "purge", 1, TRUE) /\ Logged("B", "purge", 1, TRUE)
    /\ LogPos("A", "purge") < LogPos("B", "purge")
    /\ LogPos("B", "purge") < LogPos("A", "write")
    /\ LogPos("A", "write") < LogPos("B", "write")
\* C17: two concurrent upserts of one id can interleave as purge A, purge B,
\* write A, write B, and then the store holds all records of B's version and
\* the records of A's version that B's version has no chunk for.
C17_BothVersions ==
    PurgesThenWrites =>
        LET id == ureq["B"].body.docs[1].id
            ofA == VersionRecords(id, ureq["A"].body.docs[1].text)
            ofB == VersionRecords(id, ureq["B"].body.docs[1].text)
        IN  StoredOf(id) = ofB \cup {a \in ofA : \A b \in ofB : b.id # a.id}
\* The store holds records of both versions, which neither request alone
\* leaves behind.
C17_Witness ==
    /\ PurgesThenWrites
    /\ LET ofA == VersionRecords("D", ureq["A"].body.docs[1].text)
           ofB == VersionRecords("D", ureq["B"].body.docs[1].text)
       IN  /\ StoredOf("D") \cap ofA # {}
           /\ StoredOf("D") \cap ofB # {}
           /\ StoredOf("D") # ofA
           /\ StoredOf("D") # ofB

(***************************************************************************)
(* The server with both endpoints: a query, or one or two upserts, or a    *)
(* query on an empty index together with an upsert whose docs the          *)
(* validation rejects.                                                     *)
(***************************************************************************)
InitTogether ==
    /\ store = {}
    /\ QueryReceived
    /\ \E b \in {x \in Bodies : DocsInvalid(x)} :
          ureq = [r \in Reqs |-> IF r = "A" THEN UReq(b) ELSE UpsertAbsent]
    /\ ulog = <<>>
    /\ ResetIdle
    /\ UtilIdle
    /\ ChunkIdle
    /\ MetaIdle
InitServer == InitQuery \/ InitUpsert \/ InitTogether
NextServer == NextQuery \/ NextUpsert
SpecServer == InitServer /\ [][NextServer]_vars

\* C18: an upsert whose docs is no array or is empty, and a query whose query
\* is no string or is the empty string, is answered with HTTP 400 at once:
\* none of its external calls is ever started.
C18_RejectedWithoutCalls ==
    /\ (qpc \notin {"idle", "received"} /\ (qbody.t # "string" \/ qbody.s = ""))
          => /\ qpc = "responded"
             /\ qresp.status = 400
             /\ qcalls = <<>>
             /\ rpc = "idle"
    /\ \A r \in Reqs :
          (/\ ureq[r].pc \notin {"absent", "received"}
           /\ (~ureq[r].body.isArray \/ ureq[r].body.docs = <<>>))
          => /\ ureq[r].pc = "responded"
             /\ ureq[r].resp.status = 400
             /\ \A n \in 1..Len(ulog) : ulog[n].req # r
\* A query with the empty string and an upsert with an empty docs array have
\* both been answered.
C18_Witness ==
    /\ qbody = Str("") /\ qpc = "responded" /\ qresp.status = 400
    /\ ureq["A"].pc = "responded" /\ ureq["A"].resp.status = 400
    /\ ureq["A"].body = Body(TRUE, <<>>)

(***************************************************************************)
(* POST /reset.  The store accepts a deleteAll and applies it later (it is *)
(* eventually consistent), so a stats call can still count records of a    *)
(* namespace that was cleared.  The clock is in milliseconds and counts    *)
(* from the moment the handler reads it to fix the deadline; from then on  *)
(* it moves while the handler awaits a poll or the timer.                  *)
(***************************************************************************)
MaxDelay == 3500
MaxClock == 12000
PollDeadlineMs == 7000
PollSleepMs == 300

\* The time a poll takes.
Delays == {0, MaxDelay}
Tick(t, d) == Min(t + d, MaxClock)

\* The namespaces of the index, in the order the stats list them.
Namespaces == <<"", "default", "other">>
ResetRecords ==
    {Rec("default", <<"D", 0>>, "D", "a"), Rec("other", <<"X", 0>>, "X", "c")}
RecordCount(st, ns) == Cardinality(InNamespace(st, ns))
\* describeIndexStats(): the namespaces with their counts; the store lists
\* the namespaces that hold records, and with them all the others or none.
StatsOf(st) ==
    {[n \in 1..Len(Namespaces) |->
        [listed |-> all \/ RecordCount(st, Namespaces[n]) > 0,
         ns |-> Namespaces[n],
         recordCount |-> RecordCount(st, Namespaces[n])]] :
     all \in BOOLEAN}
IsListed(e) == e.listed
\* Object.keys(stats?.namespaces || {})
ListedOf(stats) ==
    LET l == SelectSeq(stats, IsListed) IN [n \in 1..Len(l) |-> l[n].ns]
\* new Set(listed), candidates.add(""), candidates.add("default")
SetAdd(s, x) == IF \E n \in 1..Len(s) : s[n] = x THEN s ELSE Append(s, x)
CandidatesOf(listed) == SetAdd(SetAdd(listed, ""), "default")
\* .filter(([, v]) => (v?.vectorCount ?? v?.recordCount ?? 0) > 0).map(([k]) => k)
HoldsRecords(e) == e.listed /\ e.recordCount > 0
RemainingAll(after) ==
    LET l == SelectSeq(after, IsListed) IN [n \in 1..Len(l) |-> l[n].ns]
RemainingOf(after) ==
    LET l == SelectSeq(after, HoldsRecords) IN [n \in 1..Len(l) |-> l[n].ns]
\* cleared.push(ns || "(root)")
ClearedName(ns) == IF ns = "" THEN "(root)" ELSE ns
\* while (Date.now() < deadline)
PollForever(t, deadline) == TRUE
PollCond(t, deadline) == t < deadline

RHttp(st, status, cleared, remaining, err) ==
    [status |-> st, body |-> status, cleared |-> cleared,
     remaining |-> remaining, error |-> err]
NoResetHttp == RHttp(0, "", <<>>, <<>>, "")
ResetFailedMsg == "Reset failed"
\* if (remaining.length) ... "attempted_but_remaining" else "deleted_all"
ResetAnswer(cleared, remaining) ==
    IF Len(remaining) > 0
    THEN RHttp(200, "attempted_but_remaining", cleared, remaining, "")
    ELSE RHttp(200, "deleted_all", cleared, <<>>, "")

\* The locals of the handler; after is the result of the latest poll, and
\* is empty as long as there was none.
RReq(pc) ==
    [pc |-> pc, candidates |-> <<>>, j |-> 0, cleared |-> <<>>, deadline |-> 0,
     after |-> <<>>, remaining |-> <<>>, resp |-> NoResetHttp]
ResetResponds(q, r) == [q EXCEPT !.pc = "responded", !.resp = r]

InitReset ==
    /\ store \in SUBSET ResetRecords
    /\ reset = RReq("stats")
    /\ now = 0
    /\ pendingDeletes = {}
    /\ QueryIdle
    /\ UpsertIdle
    /\ UtilIdle
    /\ ChunkIdle
    /\ MetaIdle
    /\ RerankIdle

ResetFrame ==
    UNCHANGED <<queryVars, upsertVars, chunkVars, metaVars, rerankVars, utilVars>>

\* const stats = await index.describeIndexStats(); candidates are set up and
\* the first namespace is being cleared.
ResetStatsOk ==
    /\ reset.pc = "stats"
    /\ \E stats \in StatsOf(store) :
          reset' = [reset EXCEPT !.pc = "nuking",
                                 !.candidates = CandidatesOf(ListedOf(stats)),
                                 !.j = 1]
    /\ UNCHANGED <<store, pendingDeletes, now>>
    /\ ResetFrame

\* A describeIndexStats call throws, before the loop or in it: catch, 500.
ResetStatsFail ==
    /\ reset.pc \in {"stats", "polling"}
    /\ reset' = ResetResponds(reset, RHttp(500, "", <<>>, <<>>, ResetFailedMsg))
    /\ UNCHANGED <<store, pendingDeletes, now>>
    /\ ResetFrame

\* After nukeNamespace of candidate j: the next candidate, or the deadline is
\* fixed and the first poll is made (Date.now() < Date.now() + 7000).
AfterNuke(q, t) ==
    IF q.j < Len(q.candidates) THEN [q EXCEPT !.j = @ + 1]
    ELSE [q EXCEPT !.pc = "polling", !.deadline = t + PollDeadlineMs,
                   !.remaining = <<>>]

\* deleteAll() is accepted: nukeNamespace returns true
ResetNukeOk ==
    /\ reset.pc = "nuking"
    /\ pendingDeletes' = pendingDeletes \cup {reset.candidates[reset.j]}
    /\ reset' = AfterNuke([reset EXCEPT
                    !.cleared = Append(@, ClearedName(reset.candidates[reset.j]))],
                  now)
    /\ UNCHANGED <<store, now>>
    /\ ResetFrame

\* deleteAll() throws: nukeNamespace returns false and the loop goes on
ResetNukeFail ==
    /\ reset.pc = "nuking"
    /\ reset' = AfterNuke(reset, now)
    /\ UNCHANGED <<store, pendingDeletes, now>>
    /\ ResetFrame

\* const after = await index.describeIndexStats(); remaining = ...;
\* if (remaining.length === 0) break; else the timer is set.
ResetPollOk ==
    /\ reset.pc = "polling"
    /\ \E d \in Delays, after \in StatsOf(store) :
          /\ now' = Tick(now, d)
          /\ LET q == [reset EXCEPT !.after = after,
                                    !.remaining = RemainingOf(after)]
             IN  reset' = IF Len(q.remaining) = 0
                          THEN ResetResponds(q, ResetAnswer(q.cleared, q.remaining))
                          ELSE [q EXCEPT !.pc = "sleeping"]
    /\ UNCHANGED <<store, pendingDeletes>>
    /\ ResetFrame

\* The timer of setTimeout(r, 300) fires: the loop condition is tested again.
ResetWake ==
    /\ reset.pc = "sleeping"
    /\ now' = Tick(now, PollSleepMs)
    /\ reset' = IF PollCond(now', reset.deadline)
                THEN [reset EXCEPT !.pc = "polling"]
                ELSE ResetResponds(reset, ResetAnswer(reset.cleared, reset.remaining))
    /\ UNCHANGED <<store, pendingDeletes>>
    /\ ResetFrame

\* The store applies an accepted deleteAll.
StoreAppliesDelete ==
    /\ \E ns \in pendingDeletes :
          /\ store' = store \ InNamespace(store, ns)
          /\ pendingDeletes' = pendingDeletes \ {ns}
    /\ UNCHANGED <<reset, now>>
    /\ ResetFrame

ResetHandler ==
    \/ ResetStatsOk
    \/ ResetStatsFail
    \/ ResetNukeOk
    \/ ResetNukeFail
    \/ ResetPollOk
    \/ ResetWake
NextReset == ResetHandler \/ StoreAppliesDelete

SpecReset == InitReset /\ [][NextReset]_vars
\* Every awaited call returns or fails and the timer fires.
SpecResetFair == SpecReset /\ WF_vars(ResetHandler)

(***************************************************************************)
(* POST /reset: properties                                                 *)
(***************************************************************************)
ResetResponded == reset.pc = "responded"
\* The namespaces the latest poll counted records in.
ObservedNonEmpty ==
    {reset.after[n].ns : n \in {m \in 1..Len(reset.after) :
                                  reset.after[m].listed /\ reset.after[m].recordCount > 0}}

\* C19: a reset that answers 200 has made a poll; it reports "deleted_all"
\* exactly when its last poll counted no record in any namespace, and else
\* "attempted_but_remaining" with exactly the namespaces that poll counted
\* records in.
C19_ReportsLastPoll ==
    (ResetResponded /\ reset.resp.status = 200) =>
        /\ reset.after # <<>>
        /\ reset.resp.body = "deleted_all" <=> ObservedNonEmpty = {}
        /\ reset.resp.body = "attempted_but_remaining" <=> ObservedNonEmpty # {}
        /\ {reset.resp.remaining[n] : n \in 1..Len(reset.resp.remaining)}
              = ObservedNonEmpty
        /\ Len(reset.resp.remaining) = Cardinality(ObservedNonEmpty)
\* After a poll and a sleep, the last poll listed a namespace with no record
\* and one with a record; only the second is reported.
C19_Witness ==
    /\ ResetResponded
    /\ now >= PollSleepMs
    /\ reset.resp.body = "attempted_but_remaining"
    /\ reset.resp.remaining = <<"other">>
    /\ reset.after[2].listed /\ reset.after[2].recordCount = 0

\* C20: every reset sends a response, also when the store never gets empty.
C20_Responds == <>ResetResponded
\* The deadline was reached with records left: a deleteAll was accepted and
\* never applied.
C20_Witness ==
    /\ ResetResponded
    /\ now >= reset.deadline
    /\ reset.after # <<>>
    /\ store # {}
    /\ pendingDeletes # {}
    /\ reset.resp.body = "attempted_but_remaining"

(***************************************************************************)
(* The rate limiter, app.use(limiter): a counter of requests per client    *)
(* address and window.  A request is counted, and refused once the count   *)
(* passes max; the window of an address ends windowMs after it began, and  *)
(* the count starts again.  Preflight requests are left alone.             *)
(***************************************************************************)
RateMax == 30
MaxOver == 2

\* No request of any component but the one under study.
HandlersIdle == store = {} /\ QueryIdle /\ UpsertIdle /\ ResetIdle
FunctionsIdle == ChunkIdle /\ MetaIdle /\ RerankIdle

Clients == {"ip1", "ip2"}
Methods == {"GET", "POST", "OPTIONS"}
Paths == {"/query", "/upsert", "/reset", "/health"}
TooManyMsg == "Too many requests. Please slow down."
\* skip: (req) => req.method === "OPTIONS"
Skip(method) == method = "OPTIONS"
\* The request is refused when its count is above max.
ExceedsLate(hits) == hits > RateMax + 1
Exceeds(hits) == hits > RateMax
\* What became of a request: answered by the preflight handler (204), by
\* the limiter (429), or passed on to its route handler (status 0).
Outcome(ip, method, path, counted, status, err) ==
    [ip |-> ip, method |-> method, path |-> path, counted |-> counted,
     status |-> status, error |-> err]
\* hits: requests counted in the current window of each address;
\* reached: those of them that were passed on to a route handler.
Limiter(hits, reached, last) ==
    [pc |-> "on", hits |-> hits, reached |-> reached, last |-> last]

InitLimiter ==
    /\ limiter = Limiter([c \in Clients |-> 0], [c \in Clients |-> 0],
                         Outcome("", "", "", FALSE, 0, ""))
    /\ emb = NotInUse
    /\ est = NotInUse
    /\ HandlersIdle
    /\ FunctionsIdle

LimiterFrame == UNCHANGED <<chunkVars, metaVars, rerankVars, store, queryVars,
                            upsertVars, resetVars, emb, est>>

\* A request arrives at the limiter.
LimiterRequest ==
    /\ limiter.pc = "on"
    /\ \E ip \in Clients, method \in Methods, path \in Paths :
          IF Skip(method)
          THEN limiter' = [limiter EXCEPT
                  !.last = Outcome(ip, method, path, FALSE, 204, "")]
          ELSE /\ limiter.hits[ip] < RateMax + MaxOver
               /\ LET hits == limiter.hits[ip] + 1
                  IN  limiter' =
                        IF Exceeds(hits)
                        THEN [limiter EXCEPT
                                !.hits[ip] = hits,
                                !.last = Outcome(ip, method, path, TRUE, 429, TooManyMsg)]
                        ELSE [limiter EXCEPT
                                !.hits[ip] = hits,
                                !.reached[ip] = @ + 1,
                                !.last = Outcome(ip, method, path, TRUE, 0, "")]
    /\ LimiterFrame

\* windowMs after the first counted request of an address its window ends.
WindowExpires ==
    /\ limiter.pc = "on"
    /\ \E ip \in Clients :
          /\ limiter.hits[ip] > 0
          /\ limiter' = [limiter EXCEPT !.hits[ip] = 0, !.reached[ip] = 0]
    /\ LimiterFrame

NextLimiter == LimiterRequest \/ WindowExpires
SpecLimiter == InitLimiter /\ [][NextLimiter]_vars

\* C21: in a window at most 30 requests of an address, OPTIONS aside, reach
\* a route handler, whatever their paths; a further one is answered 429 with
\* an error body and reaches no handler; an OPTIONS request is neither
\* counted nor refused.
C21_AtMostThirty ==
    limiter.pc = "on" =>
        /\ \A ip \in Clients :
              /\ limiter.reached[ip] <= 30
              /\ limiter.reached[ip] = Min(limiter.hits[ip], 30)
        /\ (limiter.last.counted /\ limiter.hits[limiter.last.ip] > 30)
              => limiter.last.status = 429 /\ limiter.last.error # ""
        /\ limiter.last.method = "OPTIONS"
              => ~limiter.last.counted /\ limiter.last.status # 429
\* The 31st request of an address in a window, to another path than the one
\* before, is refused while the other address is still served.
C21_Witness ==
    /\ limiter.pc = "on"
    /\ limiter.hits["ip1"] = 31
    /\ limiter.reached["ip1"] = 30
    /\ limiter.last = Outcome("ip1", "POST", "/reset", TRUE, 429, TooManyMsg)
    /\ limiter.reached["ip2"] = 1

\* The calls request r made for chunk i of its document k.
CallsOf(r, call, k, i) ==
    {n \in 1..Len(ulog) :
        ulog[n].req = r /\ ulog[n].call = call /\ ulog[n].k = k /\ ulog[n].i = i}
\* C22: no call is made twice.  A query calls the embedding provider, the
\* store, the rerank provider and the generation provider at most once each;
\* an upsert purges and writes a document at most once and embeds a chunk
\* at most once, whether or not a call failed.
C22_NoRetry ==
    /\ \A m, n \in 1..Len(qcalls) : m # n => qcalls[m] # qcalls[n]
    /\ \A n \in 1..Len(ulog) :
          Cardinality(CallsOf(ulog[n].req, ulog[n].call, ulog[n].k, ulog[n].i)) = 1
    /\ \A r \in Reqs : ureq[r].pc = "responded" =>
          \A n \in 1..Len(ulog) :
             (ulog[n].req = r /\ ~ulog[n].ok /\ ulog[n].call # "purge")
                => \A m \in (n + 1)..Len(ulog) : ulog[m].req # r
\* The purge of the first of two documents failed and the request went on
\* to the end: two purges, two writes, and one embedding for every chunk.
C22_Witness ==
    /\ UpsertDone("A")
    /\ DocsWithId("A", "D") \cup DocsWithId("A", "E") = {1, 2}
    /\ Logged("A", "purge", 1, FALSE)
    /\ Len(ulog) = 4 + ureq["A"].totalChunks
    /\ ureq["A"].totalChunks = 3

(***************************************************************************)
(* embedText(text): one post to the embedding provider.                    *)
(***************************************************************************)
EmbedTexts == {"", "x", "xy"}
\* How the post ends when it does not resolve: axios rejects.
PostFailures == {"network", "timeout", "status"}
\* res.data of a resolved post: nothing, an object without embedding, or an
\* object whose embedding.values is any value.
NoData == [embedding |-> FALSE, values |-> Undefined]
Embedding(v) == [embedding |-> TRUE, values |-> v]
ProviderData == {NoData} \cup {Embedding(v) : v \in Values}
\* const vec = res.data?.embedding?.values
VecOf(data) == IF data.embedding THEN data.values ELSE Undefined
\* Array.isArray(vec)
IsArray(v) == v.t = "array"
BadShapeMsg == "Bad embedding shape from Gemini"
\* The call: its argument, the resolved res.data, what it returned or threw.
Emb(pc, txt, data, value, error) ==
    [pc |-> pc, text |-> txt, data |-> data, value |-> value, error |-> error]

InitEmbed ==
    /\ \E txt \in EmbedTexts : emb = Emb("posting", txt, NoData, Undefined, "")
    /\ limiter = NotInUse
    /\ est = NotInUse
    /\ HandlersIdle
    /\ FunctionsIdle

EmbedFrame == UNCHANGED <<chunkVars, metaVars, rerankVars, store, queryVars,
                          upsertVars, resetVars, limiter, est>>

\* await axios.post(...) resolves
EmbedPostOk ==
    /\ emb.pc = "posting"
    /\ \E data \in ProviderData : emb' = [emb EXCEPT !.pc = "resolved", !.data = data]
    /\ EmbedFrame

\* await axios.post(...) rejects: catch (err) { ...; throw err }
EmbedPostFail ==
    /\ emb.pc = "posting"
    /\ \E f \in PostFailures : emb' = [emb EXCEPT !.pc = "threw", !.error = f]
    /\ EmbedFrame

\* if (!Array.isArray(vec)) throw new Error(...); return vec
EmbedCheck ==
    /\ emb.pc = "resolved"
    /\ emb' = IF IsArray(VecOf(emb.data))
              THEN [emb EXCEPT !.pc = "returned", !.value = VecOf(emb.data)]
              ELSE [emb EXCEPT !.pc = "threw", !.error = BadShapeMsg]
    /\ EmbedFrame

NextEmbed == EmbedPostOk \/ EmbedPostFail \/ EmbedCheck
SpecEmbed == InitEmbed /\ [][NextEmbed]_vars

\* The response carries an array of numbers.
NumberArray(v) ==
    v.t = "array" /\ \A n \in 1..Len(v.a) : v.a[n].t = "number"
\* C23: embedText throws, and returns nothing, whenever the post fails and
\* whenever the response does not carry an array of numbers.
C23_ThrowsOnBadShape ==
    /\ (emb.pc = "returned") => NumberArray(VecOf(emb.data))
    /\ (emb.pc = "threw") => emb.value = Undefined
    /\ (emb.error \in PostFailures) => emb.pc = "threw"

(***************************************************************************)
(* The cost calculator.  Amounts are exact fractions num/den of a dollar;  *)
(* what dollars() returns, a multiple of 1/10000 dollar, is given as the   *)
(* number of these units.                                                  *)
(***************************************************************************)
MaxTokens == 4
MaxChars == 8

Frac(num, den) == [num |-> num, den |-> den]
\* The configured prices per 1000 tokens: 0, 0.05 and 0.025 dollars.
Prices == {Frac(0, 1), Frac(1, 20), Frac(1, 40)}
RECURSIVE Gcd(_, _)
Gcd(a, b) == IF b = 0 THEN a ELSE Gcd(b, a % b)
\* The fraction in lowest terms.
Lowest(num, den) == Frac(num \div Gcd(num, den), den \div Gcd(num, den))
Times(a, b) ==
    LET x == Lowest(a.num, b.den)
        y == Lowest(b.num, a.den)
    IN  Lowest(x.num * y.num, x.den * y.den)
Plus(a, b) ==
    LET g == Gcd(a.den, b.den)
    IN  Lowest(a.num * (b.den \div g) + b.num * (a.den \div g),
               (a.den \div g) * b.den)
\* Math.round(x) of a fraction x >= 0: the nearest integer, halves upwards
MathRound(x) == (2 * x.num + x.den) \div (2 * x.den)
\* Math.ceil(x) of a fraction x >= 0
MathCeil(x) == (x.num + x.den - 1) \div x.den
\* Math.round((Number(n) || 0) * 10000) / 10000
DollarsOrOne(n) ==
    MathRound(Times(IF n.num = 0 THEN Frac(1, 1) ELSE n, Frac(10000, 1)))
dollars(n) ==
    MathRound(Times(IF n.num = 0 THEN Frac(0, 1) ELSE n, Frac(10000, 1)))

estimateGeminiCost(inTok, outTok, inPer1k, outPer1k) ==
    LET inCost == Times(Frac(inTok, 1000), inPer1k)
        outCost == Times(Frac(outTok, 1000), outPer1k)
    IN  [inTok |-> inTok, outTok |-> outTok, inCost |-> dollars(inCost),
         outCost |-> dollars(outCost), total |-> dollars(Plus(inCost, outCost))]
estimateEmbeddingCost(charCount, per1k) ==
    LET approxTokens == MathCeil(Frac(charCount, 4))
        cost == Times(Frac(approxTokens, 1000), per1k)
    IN  [approxTokens |-> approxTokens, cost |-> dollars(cost)]

\* One estimate after the other with the same prices: the arguments of the
\* latest call, its result, and the result of the call before it.
Est(fn, args, prices, result, before) ==
    [pc |-> "estimated", fn |-> fn, args |-> args, prices |-> prices,
     result |-> result, before |-> before]
GeminiEst(inTok, outTok, prices, before) ==
    Est("gemini", <<inTok, outTok>>, prices,
        estimateGeminiCost(inTok, outTok, prices[1], prices[2]), before)
EmbeddingEst(charCount, prices, before) ==
    Est("embedding", <<charCount>>, prices,
        estimateEmbeddingCost(charCount, prices[1]), before)

InitEstimate ==
    /\ \/ \E inTok, outTok \in 0..MaxTokens, inPer1k, outPer1k \in Prices :
             LET first == estimateGeminiCost(inTok, outTok, inPer1k, outPer1k)
             IN  est = GeminiEst(inTok, outTok, <<inPer1k, outPer1k>>, first)
       \/ \E charCount \in 0..MaxChars, per1k \in Prices :
             LET first == estimateEmbeddingCost(charCount, per1k)
             IN  est = EmbeddingEst(charCount, <<per1k>>, first)
    /\ limiter = NotInUse
    /\ emb = NotInUse
    /\ HandlersIdle
    /\ FunctionsIdle

EstimateFrame == UNCHANGED <<chunkVars, metaVars, rerankVars, store, queryVars,
                             upsertVars, resetVars, limiter, emb>>

\* estimateGeminiCost is called again with one token count raised.
EstimateMoreTokens ==
    /\ est.pc = "estimated" /\ est.fn = "gemini"
    /\ \E inTok \in est.args[1]..MaxTokens, outTok \in est.args[2]..MaxTokens :
          /\ (inTok = est.args[1]) # (outTok = est.args[2])
          /\ est' = GeminiEst(inTok, outTok, est.prices, est.result)
    /\ EstimateFrame

\* estimateEmbeddingCost is called again with a higher character count.
EstimateMoreChars ==
    /\ est.pc = "estimated" /\ est.fn = "embedding"
    /\ \E charCount \in (est.args[1] + 1)..MaxChars :
          est' = EmbeddingEst(charCount, est.prices, est.result)
    /\ EstimateFrame

NextEstimate == EstimateMoreTokens \/ EstimateMoreChars
SpecEstimate == InitEstimate /\ [][NextEstimate]_vars

\* C24: with prices that are not negative, zero tokens cost 0 in total and
\* zero characters cost 0, and an estimate for a raised token count or
\* character count is never below the estimate before the raise.
C24_ZeroAndMonotonic ==
    /\ (est.pc = "estimated" /\ est.fn = "gemini") =>
          /\ (est.args = <<0, 0>>) => est.result.total = 0
          /\ est.before.total <= est.result.total
    /\ (est.pc = "estimated" /\ est.fn = "embedding") =>
          /\ (est.args = <<0>>) => est.result.cost = 0
          /\ est.before.cost <= est.result.cost
\* A raise of the completion tokens from 1 to 2 at 0.025 dollars per 1000
\* moves the total over a rounding step.
C24_Witness ==
    /\ est.pc = "estimated" /\ est.fn = "gemini"
    /\ est.args = <<0, 2>>
    /\ est.before.total = 0
    /\ est.result.total = 1

\* The place of a call in the pipeline; the stats call of the no-sources
\* branch stands where the generation call would.
StageRank(c) ==
    CASE c = "embed" -> 1 [] c = "retrieve" -> 2 [] c = "rerank" -> 3
      [] c = "stats" -> 4 [] c = "generate" -> 4
\* The call the handler is awaiting, "" if none.
InFlight ==
    CASE qpc = "embedding" -> "embed" [] qpc = "retrieving" -> "retrieve"
      [] qpc = "reranking" -> "rerank" [] qpc = "stats" -> "stats"
      [] qpc = "generating" -> "generate" [] OTHER -> ""
\* C25: the calls of a query are started in the order embed, retrieve,
\* rerank, generate; the call that is awaited is the one started last, so
\* every call before it has completed and no two are in flight; and when the
\* response is sent no call is awaited.
C25_OneStageAtATime ==
    /\ \A m, n \in 1..Len(qcalls) :
          m < n => StageRank(qcalls[m]) < StageRank(qcalls[n])
    /\ InFlight # "" => (qcalls # <<>> /\ qcalls[Len(qcalls)] = InFlight)
    /\ qresp # NoHttp => InFlight = ""
    /\ (qcalls # <<>>) => qcalls[1] = "embed"
    /\ \A n \in 2..Len(qcalls) :
          qcalls[n] \in {"rerank", "stats", "generate"} => qcalls[2] = "retrieve"
\* All four calls were made and the response is sent.
C25_Witness ==
    /\ qcalls = <<"embed", "retrieve", "rerank", "generate">>
    /\ QueryResponded
    /\ qresp.status = 200

\* The last call of request r that completed, 0 if none did.
LastCallOf(r) ==
    IF \E n \in 1..Len(ulog) : ulog[n].req = r
    THEN CHOOSE n \in 1..Len(ulog) :
            ulog[n].req = r /\ \A m \in (n + 1)..Len(ulog) : ulog[m].req # r
    ELSE 0
\* C26: the purge of a document has completed, well or not, before any of
\* its chunks is embedded or written; and after a purge that failed the
\* request goes on with the first chunk of the same document.
C26_PurgeFirstAndNotFatal ==
    /\ \A n \in 1..Len(ulog) :
          ulog[n].call \in {"embed", "write"} =>
             \E m \in 1..(n - 1) :
                ulog[m].req = ulog[n].req /\ ulog[m].call = "purge"
                   /\ ulog[m].k = ulog[n].k
    /\ \A r \in Reqs :
          ureq[r].pc \in {"embedding", "writing"} =>
             \E m \in 1..Len(ulog) :
                ulog[m].req = r /\ ulog[m].call = "purge" /\ ulog[m].k = ureq[r].k
    /\ \A r \in Reqs :
          LET n == LastCallOf(r)
          IN  (n # 0 /\ ulog[n].call = "purge" /\ ~ulog[n].ok) =>
                 /\ ureq[r].pc = "embedding"
                 /\ ureq[r].k = ulog[n].k
                 /\ ureq[r].i = 0
\* The purge failed, and the request ended with status "upserted" and the
\* records of the new version written over those of the old.
C26_Witness ==
    /\ UpsertDone("A")
    /\ ureq["A"].resp.body = "upserted"
    /\ ureq["B"].pc = "absent"
    /\ Len(ureq["A"].body.docs) = 1
    /\ Logged("A", "purge", 1, FALSE)
    /\ Logged("A", "write", 1, TRUE)
    /\ VersionRecords("D", ureq["A"].body.docs[1].text) \subseteq store

RECURSIVE SumTo(_, _)
\* f[1] + ... + f[n]
SumTo(f, n) == IF n = 0 THEN 0 ELSE f[n] + SumTo(f, n - 1)
\* Per document of request r: its number of chunks and the total length of
\* its chunks, 0 for a document the loop skips.
ChunkCounts(r) ==
    [k \in 1..Len(ureq[r].body.docs) |->
        LET doc == ureq[r].body.docs[k]
        IN  IF doc.id # "" /\ doc.text # <<>>
            THEN Len(chunkText(doc.text, DefaultChunkSize, DefaultOverlap))
            ELSE 0]
ChunkChars(r) ==
    [k \in 1..Len(ureq[r].body.docs) |->
        LET doc == ureq[r].body.docs[k]
            cs == chunkText(doc.text, DefaultChunkSize, DefaultOverlap)
        IN  IF doc.id # "" /\ doc.text # <<>>
            THEN SumTo([i \in 1..Len(cs) |-> Len(cs[i])], Len(cs))
            ELSE 0]
\* The counts n of the calls of one kind that request r completed well.
CountsOf(r, call) ==
    [m \in 1..Len(ulog) |->
        IF ulog[m].req = r /\ ulog[m].call = call /\ ulog[m].ok
        THEN ulog[m].n ELSE 0]
\* C27: in a response with status "upserted", totalChunks and totalVectors
\* are equal, are the sum of the chunk counts of the valid documents and the
\* number of records the request wrote; and the character count the
\* embedding cost is taken of is the total length of the embedded chunks.
C27_Totals ==
    \A r \in Reqs :
        (ureq[r].pc = "responded" /\ ureq[r].resp.status = 200) =>
            /\ ureq[r].resp.totalChunks = ureq[r].resp.totalVectors
            /\ ureq[r].resp.totalChunks
                  = SumTo(ChunkCounts(r), Len(ureq[r].body.docs))
            /\ ureq[r].resp.totalVectors
                  = SumTo(CountsOf(r, "write"), Len(ulog))
            /\ ureq[r].embedCharSum = SumTo(CountsOf(r, "embed"), Len(ulog))
            /\ ureq[r].embedCharSum
                  = SumTo(ChunkChars(r), Len(ureq[r].body.docs))
\* A document of two chunks and a document the loop skips: two records, and
\* more characters embedded than the text has, the overlap counting twice.
C27_Witness ==
    /\ ureq["A"].pc = "responded" /\ ureq["A"].resp.status = 200
    /\ Len(ureq["A"].body.docs) = 2
    /\ ureq["A"].body.docs[2].text = <<>>
    /\ ureq["A"].resp.totalDocs = 2
    /\ ureq["A"].resp.totalChunks = 2
    /\ ureq["A"].embedCharSum > Len(ureq["A"].body.docs[1].text)

\* C28: in a response with sources, the source at position i (from 1) has
\* num = i, the place the reranker gave it, and the prompt of the generation
\* call gave its text under the same number: a marker [n] of the answer
\* means the n-th source of the response.
C28_NumbersArePositions ==
    (QueryResponded /\ Len(qresp.sources) > 0) =>
        /\ Called("generate")
        /\ Len(PromptSources(qsources)) = Len(qresp.sources)
        /\ \A i \in 1..Len(qresp.sources) :
              /\ qresp.sources[i].num = i
              /\ PromptSources(qsources)[i].num = i
              /\ PromptSources(qsources)[i].text = qresp.sources[i].text
\* The reranker put the second match first; it is source 1 of the response.
C28_Witness ==
    /\ QueryResponded
    /\ Called("rerank") /\ "rerank" \notin qfailed
    /\ Len(qresp.sources) = 2
    /\ qresp.sources[1].id = <<"D", 1>> /\ qresp.sources[1].num = 1
    /\ qresp.sources[2].id = <<"D", 0>> /\ qresp.sources[2].num = 2

\* The embedding of a chunk failed in request r and nothing was called since.
EmbedFailed(r) ==
    /\ ureq[r].pc = "responded"
    /\ LastCallOf(r) # 0
    /\ ulog[LastCallOf(r)].call = "embed"
    /\ ~ulog[LastCallOf(r)].ok
\* The document the failed embedding belongs to.
FailedDoc(r) == ulog[LastCallOf(r)].k
\* The request ends with 500, wrote no record of document k or a later one
\* and purged no later document.
StopsAt(r, k) ==
    /\ ureq[r].resp = UpsertFailure
    /\ \A n \in 1..Len(ulog) :
          ulog[n].req = r =>
             /\ ulog[n].call = "write" => ulog[n].k < k
             /\ ulog[n].call = "purge" => ulog[n].k <= k
\* The records of document j of request r, as its write left them.
WrittenOf(r, j) ==
    VersionRecords(ureq[r].body.docs[j].id, ureq[r].body.docs[j].text)
\* The records of an earlier version: their text is made of the character 0.
EarlierVersion(id) == {x \in StoredOf(id) : x.text[1] = 0}

UpsertHandler(r) ==
    \/ UpsertValidate(r)
    \/ UpsertPurgeFail(r)
    \/ UpsertPurgeOk(r)
    \/ UpsertEmbedFail(r)
    \/ UpsertEmbedOk(r)
    \/ UpsertWriteFail(r)
    \/ UpsertWriteOk(r)
\* The index is empty or full when the query arrives; document E is stored
\* when the upserts arrive, their batches are made of versions of D and
\* that of a second request is a text of one chunk.
InitHandlers ==
    \/ InitQuery /\ store \in {{}, QueryRecords}
    \/ /\ InitUpsert
       /\ store = StoredDoc("E", TextOfChunks(1, 0))
       /\ \A j \in 1..Len(ureq["A"].body.docs) : ureq["A"].body.docs[j].id # "E"
       /\ ureq["B"] \in {UpsertAbsent, UReq(Body(TRUE, <<Doc("D", TextOfChunks(1, 2))>>))}
    \/ InitTogether
    \/ InitReset
NextHandlers ==
    \/ NextQuery
    \/ \E r \in Reqs : UpsertHandler(r)
    \/ NextReset
SpecHandlers == InitHandlers /\ [][NextHandlers]_vars
SpecHandlersFair ==
    /\ SpecHandlers
    /\ WF_vars(NextQuery)
    /\ \A r \in Reqs : WF_vars(UpsertHandler(r))
    /\ WF_vars(ResetHandler)

\* res.json / res.status(..).json was called for the request.
QuerySent == qresp # NoHttp
UpsertSent(r) == ureq[r].pc # "absent" /\ ureq[r].resp # NoUpsertHttp
ResetSent == reset.pc # "absent" /\ reset.resp # NoResetHttp
QueryRunning == qpc \notin {"idle", "responded"}
UpsertRunning(r) == ureq[r].pc \notin {"absent", "responded"}
ResetRunning == reset.pc \notin {"absent", "responded"}
\* A response is sent at the handler's last step only: the handler has sent
\* one exactly when it is over, and then no step of it is left that could
\* send another; and a handler that is not over has a step to take.
OneResponseEach ==
    /\ QuerySent <=> QueryResponded
    /\ QueryResponded => ~ENABLED NextQuery
    /\ QueryRunning => ENABLED NextQuery
    /\ \A r \in Reqs :
          /\ UpsertSent(r) <=> ureq[r].pc = "responded"
          /\ ureq[r].pc = "responded" => ~ENABLED UpsertHandler(r)
          /\ UpsertRunning(r) => ENABLED UpsertHandler(r)
    /\ ResetSent <=> ResetResponded
    /\ ResetResponded => ~ENABLED ResetHandler
    /\ ResetRunning => ENABLED ResetHandler
\* The response of a request, once sent, is not replaced.
ResponseKept ==
    /\ QuerySent => qresp' = qresp
    /\ \A r \in Reqs : UpsertSent(r) => ureq'[r] = ureq[r]
    /\ ResetSent => reset' = reset
AllAnswered ==
    /\ ~QueryRunning
    /\ \A r \in Reqs : ~UpsertRunning(r)
    /\ ~ResetRunning

\* C30: every request to /upsert, /query or /reset gets exactly one response
\* on every path: every request that arrived is answered in the end, a
\* response is sent at the last step of the handler and at no other, and a
\* response that was sent is never replaced by a second one.
C30_ExactlyOneResponse ==
    /\ []OneResponseEach
    /\ [][ResponseKept]_vars
    /\ <>[]AllAnswered
\* The write of the second document failed after the first was written, and
\* the request was answered with 500.
C30_Witness ==
    /\ ureq["A"].pc = "responded"
    /\ ureq["A"].resp = UpsertFailure
    /\ Logged("A", "write", 1, TRUE)
    /\ ulog[Len(ulog)] = LogEntry("A", "write", 2, 0, FALSE, 0)

====
